---------------------------- MODULE Spec2Model ----------------------------
(***************************************************************************)
(* Model of the ORTC negotiation functions of src/src/ortc.ts and of the   *)
(* helpers of utils.ts (src/unnamed/part_002).                             *)
(*                                                                         *)
(* JavaScript values are tagged records [t |-> <type tag>, v |-> <value>]: *)
(* numbers, NaN, strings, booleans, undefined, arrays (v a sequence) and   *)
(* objects (v a function from the keys that are present to values).  A     *)
(* missing key reads as undefined, as in JavaScript.                       *)
(***************************************************************************)
EXTENDS Integers, Sequences, FiniteSets, TLC

VARIABLES
    supportedRtpCapabilities, \* module-level table imported by ortc.ts
    DynamicPayloadTypes,      \* module-level pool of dynamic payload types
    pc,                       \* name of the last function called ("idle" before)
    args,                     \* the arguments of that call, as the call left them
    args0,                    \* the same arguments as they were when passed
    ret,                      \* what the call returned or threw
    draws                     \* the values the call took from the pool with
                              \* shift(), each with the length of the pool
                              \* it was taken from

vars == <<supportedRtpCapabilities, DynamicPayloadTypes, pc, args, args0, ret, draws>>

---------------------------------------------------------------------------
(* JavaScript values *)

Undefined == [t |-> "undefined", v |-> 0]
NaN == [t |-> "NaN", v |-> 0]
Num(n) == [t |-> "number", v |-> n]
Str(s) == [t |-> "string", v |-> s]
Bool(b) == [t |-> "boolean", v |-> b]
Arr(s) == [t |-> "array", v |-> s]
Obj(f) == [t |-> "object", v |-> f]
EmptyObj == Obj([k \in {} |-> Undefined])

\* typeof x
TypeOf(x) ==
    CASE x.t = "NaN" -> "number"
      [] x.t = "array" -> "object"
      [] OTHER -> x.t

\* Array.isArray(x)
IsArray(x) == x.t = "array"

\* the truthiness of x, as in `if (x)`, `!x`, `x || y`
Truthy(x) ==
    CASE x.t = "undefined" -> FALSE
      [] x.t = "NaN" -> FALSE
      [] x.t = "number" -> x.v # 0
      [] x.t = "string" -> x.v # ""
      [] x.t = "boolean" -> x.v
      [] OTHER -> TRUE

\* x === y for primitive values: NaN is equal to nothing, itself included
StrictEq(x, y) == x.t # "NaN" /\ x.t = y.t /\ x.v = y.v

\* x || y
OrElse(x, y) == IF Truthy(x) THEN x ELSE y

\* o[k] for a string key k: undefined unless o is an object that has the key
Get(o, k) == IF o.t = "object" /\ k \in DOMAIN o.v THEN o.v[k] ELSE Undefined

\* o[k] = x
Set(o, k, x) == Obj([j \in (DOMAIN o.v) \cup {k} |-> IF j = k THEN x ELSE o.v[j]])

\* delete o[k]
Delete(o, k) == Obj([j \in (DOMAIN o.v) \ {k} |-> o.v[j]])

\* marks a key left out of an object literal
Absent == [t |-> "absent", v |-> 0]

\* the object literal with the fields of f that are not Absent
MkObj(f) == Obj([k \in {j \in DOMAIN f : f[j] # Absent} |-> f[k]])

\* the result of a call: a returned value, or a thrown error (kind is "none"
\* before any call)
Return(x) == [kind |-> "return", value |-> x, error |-> ""]
Throw(e) == [kind |-> "throw", value |-> Undefined, error |-> e]

\* utils.clone: a deep copy; values of the model are immutable, so the copy
\* is the value and what is written to the copy never reaches the original
clone(value) == value

\* utils.clone if it returned its argument
cloneSharesArgument == TRUE

\* whether the value utils.clone returns shares objects with its argument:
\* structuredClone and JSON.parse(JSON.stringify(...)) build new ones
cloneShares == FALSE

\* the argument o of a call after the call wrote to the elements of
\* utils.clone(o[k]), written being that clone as the call leaves it
leftByWrites(o, k, written) ==
    IF cloneShares /\ k \in DOMAIN o.v THEN Set(o, k, written) ELSE o


---------------------------------------------------------------------------
(* Strings.  The mime types of the model are the strings below; each is    *)
(* split at its first "/" by a table, and upper-case parts are lowered by  *)
(* a table, so that String.toLowerCase and the two regular expressions of  *)
(* ortc.ts are computed on the parts.                                      *)

\* the part of a mime type before the first "/" and the part after it
SplitMime(s) ==
    CASE s = "audio/opus" -> <<"audio", "opus">>
      [] s = "audio/multiopus" -> <<"audio", "multiopus">>
      [] s = "audio/PCMU" -> <<"audio", "PCMU">>
      [] s = "audio/rtx" -> <<"audio", "rtx">>
      [] s = "video/VP8" -> <<"video", "VP8">>
      [] s = "VIDEO/vp8" -> <<"VIDEO", "vp8">>
      [] s = "video/vp8" -> <<"video", "vp8">>
      [] s = "video/VP9" -> <<"video", "VP9">>
      [] s = "video/vp9" -> <<"video", "vp9">>
      [] s = "video/H264" -> <<"video", "H264">>
      [] s = "video/h264" -> <<"video", "h264">>
      [] s = "video/h264-svc" -> <<"video", "h264-svc">>
      [] s = "video/rtx" -> <<"video", "rtx">>
      [] s = "video/RTX" -> <<"video", "RTX">>
      [] s = "video/" -> <<"video", "">>
      [] s = "text/plain" -> <<"text", "plain">>
      [] OTHER -> <<s, "">>

\* String.prototype.toLowerCase on a part of a mime type
LowerPart(s) ==
    CASE s = "VIDEO" -> "video"
      [] s = "PCMU" -> "pcmu"
      [] s = "VP8" -> "vp8"
      [] s = "VP9" -> "vp9"
      [] s = "H264" -> "h264"
      [] s = "RTX" -> "rtx"
      [] OTHER -> s

\* mimeType.toLowerCase()
ToLowerCase(s) ==
    LET p == SplitMime(s) IN
    IF p[2] = "" THEN (IF p[1] = s THEN LowerPart(s) ELSE LowerPart(p[1]) \o "/")
    ELSE LowerPart(p[1]) \o "/" \o LowerPart(p[2])

\* new RegExp('^(audio|video)/(.+)', 'i').exec(s): the first group, or ""
\* when the string does not match
MimeTypeRegexExec(s) ==
    LET p == SplitMime(s) IN
    IF LowerPart(p[1]) \in {"audio", "video"} /\ p[2] # "" THEN p[1] ELSE ""

\* /.+\/rtx$/i.test(codec.mimeType)
isRtxCodec(codec) ==
    LET p == SplitMime(Get(codec, "mimeType").v) IN
    p[1] # "" /\ LowerPart(p[2]) = "rtx"

---------------------------------------------------------------------------
(* validate*: each normalises its argument in place and may throw.  The    *)
(* result is [error, obj]: the error thrown ("" when none) and the         *)
(* argument as the call left it.                                           *)

Done(o) == [error |-> "", obj |-> o]
Fail(e, o) == [error |-> e, obj |-> o]

\* validateRtcpFeedback(fb)
validateRtcpFeedback(fb) ==
    IF TypeOf(fb) # "object" THEN Fail("TypeError", fb)
    ELSE IF ~Truthy(Get(fb, "type")) \/ TypeOf(Get(fb, "type")) # "string"
    THEN Fail("TypeError", fb)
    ELSE IF ~Truthy(Get(fb, "parameter")) \/ TypeOf(Get(fb, "parameter")) # "string"
    THEN Done(Set(fb, "parameter", Str("")))
    ELSE Done(fb)

\* the keys of codec.parameters, in the order Object.keys visits them (the
\* objects of the model do not record the insertion order of their keys)
ParameterKeys ==
    <<"apt", "coupled_streams", "level-asymmetry-allowed", "num_streams",
      "packetization-mode", "profile-id", "profile-level-id", "useinbandfec">>

\* the loop over Object.keys(codec.parameters), from the i-th key on
RECURSIVE validateParametersFrom(_, _)
validateParametersFrom(parameters, i) ==
    IF i > Len(ParameterKeys) THEN Done(parameters)
    ELSE LET key == ParameterKeys[i] IN
         IF key \notin DOMAIN parameters.v THEN validateParametersFrom(parameters, i + 1)
         ELSE LET value0 == parameters.v[key]
                  p1 == IF value0 = Undefined THEN Set(parameters, key, Str("")) ELSE parameters
                  value == IF value0 = Undefined THEN Str("") ELSE value0
              IN  IF TypeOf(value) # "string" /\ TypeOf(value) # "number"
                  THEN Fail("TypeError", p1)
                  ELSE IF key = "apt" /\ TypeOf(value) # "number"
                  THEN Fail("TypeError", p1)
                  ELSE validateParametersFrom(p1, i + 1)

\* the result of a loop that validates the elements of an array in place:
\* the array with its i-th element as the validation r left it, and r's error
StoreAt(arr, i, r) == [error |-> r.error, obj |-> Arr([arr.v EXCEPT ![i] = r.obj])]

\* the result of validating the member `key` of o in place
StoreIn(o, key, r) == [error |-> r.error, obj |-> Set(o, key, r.obj)]

\* the loop over codec.rtcpFeedback, from the i-th entry on; rs is the
\* result so far
RECURSIVE validateRtcpFeedbackFrom(_, _)
validateRtcpFeedbackFrom(rs, i) ==
    IF rs.error # "" \/ i > Len(rs.obj.v) THEN rs
    ELSE validateRtcpFeedbackFrom(
             StoreAt(rs.obj, i, validateRtcpFeedback(rs.obj.v[i])), i + 1)

\* lines 847-867: the loop over the keys of codec.parameters
validateCodecParameters(codec) ==
    StoreIn(codec, "parameters", validateParametersFrom(Get(codec, "parameters"), 1))

\* lines 874-876: the loop over codec.rtcpFeedback
validateCodecRtcpFeedback(codec) ==
    StoreIn(codec, "rtcpFeedback",
            validateRtcpFeedbackFrom(Done(Get(codec, "rtcpFeedback")), 1))

\* lines 869-877, reached when the parameters raised no error: rtcpFeedback
\* is optional, if unset set it to an empty array
validateRtpCodecCapabilityFeedback(r) ==
    IF r.error # "" THEN r
    ELSE validateCodecRtcpFeedback(
             IF ~Truthy(Get(r.obj, "rtcpFeedback")) \/ ~IsArray(Get(r.obj, "rtcpFeedback"))
             THEN Set(r.obj, "rtcpFeedback", Arr(<<>>)) ELSE r.obj)

\* validateRtpCodecCapability, lines 842-877: parameters (optional, if unset
\* set to an empty object) and rtcpFeedback
validateRtpCodecCapabilityTail(codec) ==
    validateRtpCodecCapabilityFeedback(
        validateCodecParameters(
            IF \/ ~Truthy(Get(codec, "parameters"))
               \/ TypeOf(Get(codec, "parameters")) # "object"
            THEN Set(codec, "parameters", EmptyObj) ELSE codec))

\* validateRtpCodecCapability, lines 820-877: codec.kind is set; channels is
\* optional for audio (1 when unset), and deleted otherwise
validateRtpCodecCapabilityBody(codec) ==
    IF Truthy(Get(codec, "preferredPayloadType"))
       /\ TypeOf(Get(codec, "preferredPayloadType")) # "number"
    THEN Fail("TypeError", codec)
    ELSE IF TypeOf(Get(codec, "clockRate")) # "number" THEN Fail("TypeError", codec)
    ELSE validateRtpCodecCapabilityTail(
             IF Get(codec, "kind") = Str("audio")
             THEN (IF TypeOf(Get(codec, "channels")) # "number"
                   THEN Set(codec, "channels", Num(1)) ELSE codec)
             ELSE Delete(codec, "channels"))

\* validateRtpCodecCapability(codec)
validateRtpCodecCapability(codec) ==
    IF TypeOf(codec) # "object" THEN Fail("TypeError", codec)
    ELSE IF ~Truthy(Get(codec, "mimeType")) \/ TypeOf(Get(codec, "mimeType")) # "string"
    THEN Fail("TypeError", codec)
    ELSE IF MimeTypeRegexExec(Get(codec, "mimeType").v) = "" THEN Fail("TypeError", codec)
    ELSE validateRtpCodecCapabilityBody(
             Set(codec, "kind",
                 Str(LowerPart(MimeTypeRegexExec(Get(codec, "mimeType").v)))))

\* the direction test of validateRtpHeaderExtension with the typeof conjunct
\* dropped: any direction that is set is refused
directionInvalidNoTypeof(ext) == Truthy(Get(ext, "direction"))

\* ext.direction && typeof ext.direction !== 'string'
directionInvalid(ext) ==
    Truthy(Get(ext, "direction")) /\ TypeOf(Get(ext, "direction")) # "string"

\* validateRtpHeaderExtension, lines 931-937: the direction
validateRtpHeaderExtensionDirection(ext) ==
    IF directionInvalid(ext) THEN Fail("TypeError", ext)
    ELSE IF ~Truthy(Get(ext, "direction"))
    THEN Done(Set(ext, "direction", Str("sendrecv")))
    ELSE Done(ext)

\* validateRtpHeaderExtension(ext); preferredEncrypt is optional, if unset
\* set it to false
validateRtpHeaderExtension(ext) ==
    IF TypeOf(ext) # "object" THEN Fail("TypeError", ext)
    ELSE IF ~StrictEq(Get(ext, "kind"), Str("audio")) /\ ~StrictEq(Get(ext, "kind"), Str("video"))
    THEN Fail("TypeError", ext)
    ELSE IF ~Truthy(Get(ext, "uri")) \/ TypeOf(Get(ext, "uri")) # "string"
    THEN Fail("TypeError", ext)
    ELSE IF TypeOf(Get(ext, "preferredId")) # "number" THEN Fail("TypeError", ext)
    ELSE IF Truthy(Get(ext, "preferredEncrypt"))
            /\ TypeOf(Get(ext, "preferredEncrypt")) # "boolean"
    THEN Fail("TypeError", ext)
    ELSE validateRtpHeaderExtensionDirection(
             IF ~Truthy(Get(ext, "preferredEncrypt"))
             THEN Set(ext, "preferredEncrypt", Bool(FALSE)) ELSE ext)

\* the loop over caps.codecs, from the i-th codec on; rs is the result so far
RECURSIVE validateCodecsFrom(_, _)
validateCodecsFrom(rs, i) ==
    IF rs.error # "" \/ i > Len(rs.obj.v) THEN rs
    ELSE validateCodecsFrom(
             StoreAt(rs.obj, i, validateRtpCodecCapability(rs.obj.v[i])), i + 1)

\* the loop over caps.headerExtensions, from the i-th extension on
RECURSIVE validateHeaderExtensionsFrom(_, _)
validateHeaderExtensionsFrom(rs, i) ==
    IF rs.error # "" \/ i > Len(rs.obj.v) THEN rs
    ELSE validateHeaderExtensionsFrom(
             StoreAt(rs.obj, i, validateRtpHeaderExtension(rs.obj.v[i])), i + 1)

\* lines 46-55: codecs is optional, if unset fill with an empty array; then
\* the loop over caps.codecs
validateCapabilitiesCodecs(caps) ==
    IF Truthy(Get(caps, "codecs")) /\ ~IsArray(Get(caps, "codecs"))
    THEN Fail("TypeError", caps)
    ELSE IF ~Truthy(Get(caps, "codecs"))
    THEN StoreIn(caps, "codecs", Done(Arr(<<>>)))
    ELSE StoreIn(caps, "codecs", validateCodecsFrom(Done(Get(caps, "codecs")), 1))

\* lines 57-66: the same for headerExtensions, reached when the codecs
\* raised no error
validateCapabilitiesHeaderExtensions(r) ==
    IF r.error # "" THEN r
    ELSE IF Truthy(Get(r.obj, "headerExtensions")) /\ ~IsArray(Get(r.obj, "headerExtensions"))
    THEN Fail("TypeError", r.obj)
    ELSE IF ~Truthy(Get(r.obj, "headerExtensions"))
    THEN StoreIn(r.obj, "headerExtensions", Done(Arr(<<>>)))
    ELSE StoreIn(r.obj, "headerExtensions",
                 validateHeaderExtensionsFrom(Done(Get(r.obj, "headerExtensions")), 1))

\* validateRtpCapabilities(caps)
validateRtpCapabilities(caps) ==
    IF TypeOf(caps) # "object" THEN Fail("TypeError", caps)
    ELSE validateCapabilitiesHeaderExtensions(validateCapabilitiesCodecs(caps))


---------------------------------------------------------------------------
(* h264-profile-level-id, the external library matchCodecs calls.  A       *)
(* profile-level-id string is parsed by a table to its profile and level.  *)

\* parseProfileLevelId(str): <<profile, level>>, or <<>> when str is not a
\* profile-level-id
parseProfileLevelId(x) ==
    CASE x = Str("42e01f") -> <<"ConstrainedBaseline", 31>>
      [] x = Str("42e01e") -> <<"ConstrainedBaseline", 30>>
      [] x = Str("4d001f") -> <<"Main", 31>>
      [] x = Str("4d001e") -> <<"Main", 30>>
      [] OTHER -> <<>>

\* profileLevelIdToString(profile_level_id)
profileLevelIdToString(p) ==
    CASE p = <<"ConstrainedBaseline", 31>> -> Str("42e01f")
      [] p = <<"ConstrainedBaseline", 30>> -> Str("42e01e")
      [] p = <<"Main", 31>> -> Str("4d001f")
      [] p = <<"Main", 30>> -> Str("4d001e")

\* parseSdpProfileLevelId(params): the default profile-level-id when unset
parseSdpProfileLevelId(params) ==
    IF Truthy(Get(params, "profile-level-id"))
    THEN parseProfileLevelId(Get(params, "profile-level-id"))
    ELSE <<"ConstrainedBaseline", 31>>

\* h264.isSameProfile(params1, params2)
isSameProfile(params1, params2) ==
    LET p1 == parseSdpProfileLevelId(params1)
        p2 == parseSdpProfileLevelId(params2)
    IN  p1 # <<>> /\ p2 # <<>> /\ p1[1] = p2[1]

\* isLevelAsymmetryAllowed(params)
isLevelAsymmetryAllowed(params) ==
    LET x == Get(params, "level-asymmetry-allowed") IN
    StrictEq(x, Bool(TRUE)) \/ StrictEq(x, Num(1)) \/ StrictEq(x, Str("1"))

\* the level of the answer for the parsed profile-level-ids l and r
answerLevel(local, remote, l, r) ==
    IF isLevelAsymmetryAllowed(local) /\ isLevelAsymmetryAllowed(remote)
    THEN l[2]
    ELSE IF l[2] < r[2] THEN l[2] ELSE r[2]

\* generateProfileLevelIdStringForAnswer once both profile-level-ids are
\* parsed, to l and r
generateProfileLevelIdStringFor(local, remote, l, r) ==
    IF l = <<>> \/ r = <<>> THEN Throw("TypeError")
    ELSE IF l[1] # r[1] THEN Throw("TypeError")
    ELSE Return(profileLevelIdToString(<<l[1], answerLevel(local, remote, l, r)>>))

\* h264.generateProfileLevelIdStringForAnswer(local, remote): the string
\* returned (Undefined when neither side sets a profile-level-id), or a throw
generateProfileLevelIdStringForAnswer(local, remote) ==
    IF ~Truthy(Get(local, "profile-level-id")) /\ ~Truthy(Get(remote, "profile-level-id"))
    THEN Return(Undefined)
    ELSE generateProfileLevelIdStringFor(local, remote, parseSdpProfileLevelId(local),
                                         parseSdpProfileLevelId(remote))

---------------------------------------------------------------------------
(* matchCodecs *)

\* a match, or none; aCodec is the first codec as the call left it
Matched(aCodec) == [match |-> TRUE, aCodec |-> aCodec]
NoMatch(aCodec) == [match |-> FALSE, aCodec |-> aCodec]

\* case 'audio/multiopus'
matchMultiopus(aCodec, bCodec) ==
    LET ap == Get(aCodec, "parameters")
        bp == Get(bCodec, "parameters")
    IN  IF ~StrictEq(Get(ap, "num_streams"), Get(bp, "num_streams")) THEN NoMatch(aCodec)
        ELSE IF ~StrictEq(Get(ap, "coupled_streams"), Get(bp, "coupled_streams"))
        THEN NoMatch(aCodec)
        ELSE Matched(aCodec)

\* lines 756-771: the profile-level-id selected for the answer, written to
\* aCodec when modify is set
matchH264Selected(aCodec, selected, modify) ==
    IF selected.kind = "throw" THEN NoMatch(aCodec)
    ELSE IF ~modify THEN Matched(aCodec)
    ELSE IF Truthy(selected.value)
    THEN Matched(Set(aCodec, "parameters",
                     Set(Get(aCodec, "parameters"), "profile-level-id", selected.value)))
    ELSE Matched(Set(aCodec, "parameters",
                     Delete(Get(aCodec, "parameters"), "profile-level-id")))

\* case 'video/h264', 'video/h264-svc', under strict
matchH264Strict(aCodec, bCodec, modify) ==
    IF ~StrictEq(OrElse(Get(Get(aCodec, "parameters"), "packetization-mode"), Num(0)),
                 OrElse(Get(Get(bCodec, "parameters"), "packetization-mode"), Num(0)))
    THEN NoMatch(aCodec)
    ELSE IF ~isSameProfile(Get(aCodec, "parameters"), Get(bCodec, "parameters"))
    THEN NoMatch(aCodec)
    ELSE matchH264Selected(aCodec,
                           generateProfileLevelIdStringForAnswer(
                               Get(aCodec, "parameters"), Get(bCodec, "parameters")),
                           modify)

\* case 'video/vp9', under strict
matchVp9Strict(aCodec, bCodec) ==
    LET aProfileId == OrElse(Get(Get(aCodec, "parameters"), "profile-id"), Num(0))
        bProfileId == OrElse(Get(Get(bCodec, "parameters"), "profile-id"), Num(0))
    IN  IF ~StrictEq(aProfileId, bProfileId) THEN NoMatch(aCodec) ELSE Matched(aCodec)

\* switch (aMimeType): the per codec special checks
matchSpecial(aMimeType, aCodec, bCodec, strict, modify) ==
    CASE aMimeType = "audio/multiopus" -> matchMultiopus(aCodec, bCodec)
      [] aMimeType \in {"video/h264", "video/h264-svc"} ->
            IF strict THEN matchH264Strict(aCodec, bCodec, modify) ELSE Matched(aCodec)
      [] aMimeType = "video/vp9" ->
            IF strict THEN matchVp9Strict(aCodec, bCodec) ELSE Matched(aCodec)
      [] OTHER -> Matched(aCodec)

\* matchCodecs(aCodec, bCodec, { strict, modify })
matchCodecs(aCodec, bCodec, strict, modify) ==
    IF ToLowerCase(Get(aCodec, "mimeType").v) # ToLowerCase(Get(bCodec, "mimeType").v)
    THEN NoMatch(aCodec)
    ELSE IF ~StrictEq(Get(aCodec, "clockRate"), Get(bCodec, "clockRate"))
    THEN NoMatch(aCodec)
    ELSE IF ~StrictEq(Get(aCodec, "channels"), Get(bCodec, "channels"))
    THEN NoMatch(aCodec)
    ELSE matchSpecial(ToLowerCase(Get(aCodec, "mimeType").v), aCodec, bCodec, strict, modify)

---------------------------------------------------------------------------
(* Arrays *)

\* The callbacks of find, some, indexOf and filter are given as the set of the
\* indexes whose element satisfies the callback.

\* the first index of S, or 0: the element Array.prototype.find, some and
\* indexOf stop at
FirstIndex(S) ==
    IF S = {} THEN 0 ELSE CHOOSE j \in S : \A k \in S : j <= k

\* seq.find(...), or Undefined
Find(seq, S) ==
    LET j == FirstIndex(S) IN IF j = 0 THEN Undefined ELSE seq[j]

\* seq.splice(i, 1)
Splice(seq, i) == SubSeq(seq, 1, i - 1) \o SubSeq(seq, i + 1, Len(seq))

\* seq.filter(...): the elements at the indexes of S, in order
RECURSIVE FilterFrom(_, _, _)
FilterFrom(seq, S, i) ==
    IF i > Len(seq) THEN <<>>
    ELSE (IF i \in S THEN <<seq[i]>> ELSE <<>>) \o FilterFrom(seq, S, i + 1)

Filter(seq, S) == FilterFrom(seq, S, 1)

---------------------------------------------------------------------------
(* generateRouterRtpCapabilities *)

\* dynamicPayloadTypes.pop(): the last value of the pool instead of the first
pop(pool) ==
    IF pool = <<>> THEN [pt |-> Undefined, rest |-> <<>>]
    ELSE [pt |-> Num(pool[Len(pool)]), rest |-> SubSeq(pool, 1, Len(pool) - 1)]

\* dynamicPayloadTypes.shift(): the first value of the pool, or undefined,
\* and the pool without it
shift(pool) ==
    IF pool = <<>> THEN [pt |-> Undefined, rest |-> <<>>]
    ELSE [pt |-> Num(Head(pool)), rest |-> Tail(pool)]

\* the test made on the value shift() returned without the throw: no value
\* is ever refused
poolExhaustedNever(pt) == FALSE

\* if (!pt) throw new Error('cannot allocate more dynamic codec payload types')
poolExhausted(pt) == ~Truthy(pt)

\* lines 110-135: the payload type of the codec cloned from the supported
\* one.  [error, codec, pool, draws]: draws is the log of the values taken
\* with shift(), each with the length of the pool it was taken from
assignPayloadType(codec, mediaCodec, pool, log) ==
    IF TypeOf(Get(mediaCodec, "preferredPayloadType")) = "number"
    THEN LET c == Set(codec, "preferredPayloadType", Get(mediaCodec, "preferredPayloadType"))
             \* dynamicPayloadTypes.indexOf(codec.preferredPayloadType), counted
             \* from 1; 0 when absent
             idx == FirstIndex({j \in DOMAIN pool :
                                   pool[j] = Get(mediaCodec, "preferredPayloadType").v})
         IN  [error |-> "", codec |-> c,
              pool |-> IF idx > 0 THEN Splice(pool, idx) ELSE pool, draws |-> log]
    ELSE IF TypeOf(Get(codec, "preferredPayloadType")) = "number"
    THEN [error |-> "", codec |-> codec, pool |-> pool, draws |-> log]
    ELSE LET sh == shift(pool)
             d == Append(log, [for |-> "media", left |-> Len(pool)])
         IN  IF poolExhausted(sh.pt)
             THEN [error |-> "Error", codec |-> codec, pool |-> sh.rest, draws |-> d]
             ELSE [error |-> "", codec |-> Set(codec, "preferredPayloadType", sh.pt),
                   pool |-> sh.rest, draws |-> d]

\* The locals of a call of generateRouterRtpCapabilities are held in st:
\* codecs (caps.codecs), pool (dynamicPayloadTypes), mediaCodecs (the
\* argument, validated in place), error (the error thrown, "" when none) and
\* draws.

\* lines 152-174: the RTX codec of a video codec, with the value sh that
\* shift() returned
routerPushRtx(st, codec, sh) ==
    IF poolExhausted(sh.pt)
    THEN [st EXCEPT !.pool = sh.rest,
                    !.draws = Append(@, [for |-> "rtx", left |-> Len(st.pool)]),
                    !.error = "Error"]
    ELSE [st EXCEPT !.pool = sh.rest,
                    !.draws = Append(@, [for |-> "rtx", left |-> Len(st.pool)]),
                    !.codecs = Append(@,
                        MkObj([kind |-> Get(codec, "kind"),
                               mimeType |-> Str(Get(codec, "kind").v \o "/rtx"),
                               preferredPayloadType |-> sh.pt,
                               clockRate |-> Get(codec, "clockRate"),
                               parameters |->
                                   MkObj([apt |-> Get(codec, "preferredPayloadType")]),
                               rtcpFeedback |-> Arr(<<>>)]))]

\* lines 149-174: append the codec, and its RTX codec when it is a video one
routerPush(st, codec) ==
    IF Get(codec, "kind") # Str("video") THEN [st EXCEPT !.codecs = Append(@, codec)]
    ELSE routerPushRtx([st EXCEPT !.codecs = Append(@, codec)], codec, shift(st.pool))

\* lines 137-147: a is what assignPayloadType returned.  The duplicate test
\* caps.codecs.some(c => c.preferredPayloadType === codec.preferredPayloadType),
\* then the parameters of the media codec merged into those of the codec
routerCheckDuplicate(st, mediaCodec, a) ==
    IF a.error # "" THEN [st EXCEPT !.pool = a.pool, !.draws = a.draws, !.error = a.error]
    ELSE IF \E j \in DOMAIN st.codecs :
               StrictEq(Get(st.codecs[j], "preferredPayloadType"),
                        Get(a.codec, "preferredPayloadType"))
    THEN [st EXCEPT !.pool = a.pool, !.draws = a.draws, !.error = "TypeError"]
    ELSE routerPush([st EXCEPT !.pool = a.pool, !.draws = a.draws],
                    \* line 147: { ...codec.parameters, ...mediaCodec.parameters }
                    Set(a.codec, "parameters",
                        Obj([j \in (DOMAIN Get(a.codec, "parameters").v)
                                   \cup (DOMAIN Get(mediaCodec, "parameters").v) |->
                                IF j \in DOMAIN Get(mediaCodec, "parameters").v
                                THEN Get(mediaCodec, "parameters").v[j]
                                ELSE Get(a.codec, "parameters").v[j]])))

\* lines 100-135: the supported codec found for the media codec, cloned and
\* given its payload type
routerAssign(st, mediaCodec, matchedSupportedCodec) ==
    IF matchedSupportedCodec = Undefined THEN [st EXCEPT !.error = "UnsupportedError"]
    ELSE routerCheckDuplicate(st, mediaCodec,
                              assignPayloadType(clone(matchedSupportedCodec), mediaCodec,
                                                st.pool, st.draws))

\* lines 96-99: supportedCodecs.find(c => matchCodecs(mediaCodec, c,
\* { strict: false }))
routerMatch(st, i, supportedCodecs) ==
    IF st.error # "" THEN st
    ELSE routerAssign(st, st.mediaCodecs[i],
                      Find(supportedCodecs,
                           {j \in DOMAIN supportedCodecs :
                               matchCodecs(st.mediaCodecs[i], supportedCodecs[j],
                                           FALSE, FALSE).match}))

\* line 94: validateRtpCodecCapability(mediaCodec), v is its result
routerValidate(st, i, v) == [st EXCEPT !.mediaCodecs[i] = v.obj, !.error = v.error]

\* lines 92-175: the body of the loop, for mediaCodecs[i]
routerIteration(st, i, supportedCodecs) ==
    routerMatch(routerValidate(st, i, validateRtpCodecCapability(st.mediaCodecs[i])),
                i, supportedCodecs)

\* the loop over mediaCodecs, from the i-th on
RECURSIVE routerLoop(_, _, _)
routerLoop(st, i, supportedCodecs) ==
    IF st.error # "" \/ i > Len(st.mediaCodecs) THEN st
    ELSE routerLoop(routerIteration(st, i, supportedCodecs), i + 1, supportedCodecs)

\* lines 88-177: what the call leaves, st being the locals after the loop and
\* clonedSupportedRtpCapabilities the clone the loop read
routerResult(supported, clonedSupportedRtpCapabilities, st) ==
    [ret |-> IF st.error # "" THEN Throw(st.error)
             ELSE Return(MkObj([codecs |-> Arr(st.codecs),
                                headerExtensions |->
                                    Get(clonedSupportedRtpCapabilities, "headerExtensions")])),
     mediaCodecs |-> Arr(st.mediaCodecs), supported |-> supported, draws |-> st.draws,
     \* line 86: the shifts and splices are made on utils.clone(DynamicPayloadTypes)
     pool |-> IF cloneShares THEN st.pool ELSE st.declared]

\* lines 79-177, vs being the result of validateRtpCapabilities on the table
routerBuild(mediaCodecs, vs, declared) ==
    IF vs.error # ""
    THEN [ret |-> Throw(vs.error), mediaCodecs |-> mediaCodecs, supported |-> vs.obj,
          draws |-> <<>>, pool |-> declared]
    ELSE IF ~IsArray(mediaCodecs)
    THEN [ret |-> Throw("TypeError"), mediaCodecs |-> mediaCodecs, supported |-> vs.obj,
          draws |-> <<>>, pool |-> declared]
    ELSE routerResult(vs.obj, clone(vs.obj),
                      routerLoop([codecs |-> <<>>, pool |-> clone(declared),
                                  declared |-> declared,
                                  mediaCodecs |-> mediaCodecs.v, error |-> "",
                                  draws |-> <<>>],
                                 1, Get(clone(vs.obj), "codecs").v))

\* generateRouterRtpCapabilities(mediaCodecs), called while the module holds
\* the table `supported` and the pool `declared`.  [ret, mediaCodecs,
\* supported, draws]: what the call returns or throws, its argument and the
\* module's table as the call leaves them, the log of the pool draws, and
\* (pool) the module's DynamicPayloadTypes as the call leaves them
generateRouterRtpCapabilities(mediaCodecs, supported, declared) ==
    routerBuild(mediaCodecs, validateRtpCapabilities(supported), declared)

---------------------------------------------------------------------------
(* utils.generateRandomNumber *)

\* the bounds passed to randomInt
randomIntMin == 100000000
randomIntMax == 999999999

\* how far from the two ends of the range the values drawn in the model lie
RandomSpread == 3

\* crypto.randomInt(min, max) if max were a value it can return
randomIntMaxIncluded(min, max) == min..max

\* crypto.randomInt(min, max): any integer n with min <= n < max
randomInt(min, max) == min..(max - 1)

\* generateRandomNumber(): the values a call may return, of which the model
\* takes those within RandomSpread of an end of the range (the candidates are
\* the integers near the two ends, those just outside included)
generateRandomNumber ==
    {n \in ((randomIntMin - 1)..(randomIntMin + RandomSpread - 2))
            \cup ((randomIntMax - RandomSpread + 1)..randomIntMax) :
        n \in randomInt(randomIntMin, randomIntMax)}

---------------------------------------------------------------------------
(* getProducerRtpParametersMapping *)

\* The locals of a call are held in st: codecs (params.codecs, which
\* matchCodecs may modify), map (codecToCapCodec, as the sequence of its
\* entries [key, capCodec] in insertion order, key being the index in
\* params.codecs of the codec object the entry is for) and error.

\* lines 205-215: j is the index of the first capability codec that
\* matchCodecs(codec, capCodec, { strict: true, modify: true }) accepts, or
\* 0; the matching call is the one that modified the codec
mappingMediaFound(st, i, capCodecs, j) ==
    IF j = 0 THEN [st EXCEPT !.error = "UnsupportedError"]
    ELSE [st EXCEPT !.codecs[i] = matchCodecs(@, capCodecs[j], TRUE, TRUE).aCodec,
                    !.map = Append(@, [key |-> i, capCodec |-> capCodecs[j]])]

\* lines 199-216: the loop over the media codecs of params.codecs
RECURSIVE mappingMediaLoop(_, _, _)
mappingMediaLoop(st, i, capCodecs) ==
    IF st.error # "" \/ i > Len(st.codecs) THEN st
    ELSE IF isRtxCodec(st.codecs[i]) THEN mappingMediaLoop(st, i + 1, capCodecs)
    ELSE mappingMediaLoop(
             mappingMediaFound(st, i, capCodecs,
                 FirstIndex({j \in DOMAIN capCodecs :
                                matchCodecs(st.codecs[i], capCodecs[j], TRUE, TRUE).match})),
             i + 1, capCodecs)

\* lines 238-252: the RTX codec of the capabilities whose apt is the payload
\* type of capMediaCodec
mappingRtxSet(st, i, associatedCapRtxCodec) ==
    IF associatedCapRtxCodec = Undefined THEN [st EXCEPT !.error = "UnsupportedError"]
    ELSE [st EXCEPT !.map = Append(@, [key |-> i, capCodec |-> associatedCapRtxCodec])]

\* lines 235-242: capMediaCodec is what the map holds for the associated
\* media codec; reading capMediaCodec.preferredPayloadType throws when the
\* map holds nothing for it
mappingRtxCap(st, i, capCodecs, capMediaCodec) ==
    IF capMediaCodec = Undefined THEN [st EXCEPT !.error = "TypeError"]
    ELSE mappingRtxSet(st, i,
             Find(capCodecs,
                  {j \in DOMAIN capCodecs :
                      /\ isRtxCodec(capCodecs[j])
                      /\ StrictEq(Get(Get(capCodecs[j], "parameters"), "apt"),
                                  Get(capMediaCodec, "preferredPayloadType"))}))

\* lines 225-235: k is the index of the first codec of params.codecs whose
\* payloadType is the apt of the RTX codec, or 0
mappingRtxAssociated(st, i, capCodecs, k) ==
    IF k = 0 THEN [st EXCEPT !.error = "TypeError"]
    ELSE mappingRtxCap(st, i, capCodecs,
             \* codecToCapCodec.get(associatedMediaCodec)
             IF \E e \in DOMAIN st.map : st.map[e].key = k
             THEN st.map[CHOOSE e \in DOMAIN st.map : st.map[e].key = k].capCodec
             ELSE Undefined)

\* lines 219-253: the loop over the RTX codecs of params.codecs
RECURSIVE mappingRtxLoop(_, _, _)
mappingRtxLoop(st, i, capCodecs) ==
    IF st.error # "" \/ i > Len(st.codecs) THEN st
    ELSE IF ~isRtxCodec(st.codecs[i]) THEN mappingRtxLoop(st, i + 1, capCodecs)
    ELSE mappingRtxLoop(
             mappingRtxAssociated(st, i, capCodecs,
                 FirstIndex({k \in DOMAIN st.codecs :
                                StrictEq(Get(st.codecs[k], "payloadType"),
                                         Get(Get(st.codecs[i], "parameters"), "apt"))})),
             i + 1, capCodecs)

\* lines 256-261: the codecs mapping, one entry per entry of the map
mappingCodecs(st) ==
    [e \in DOMAIN st.map |->
        MkObj([payloadType |-> Get(st.codecs[st.map[e].key], "payloadType"),
               mappedPayloadType |-> Get(st.map[e].capCodec, "preferredPayloadType")])]

\* a member copied to an object literal only when it is truthy: if (x.k)
IfTruthy(x) == IF Truthy(x) THEN x ELSE Absent

\* lines 264-282: the encodings mapping, random being the value that
\* generateRandomNumber returned; mappedSsrc++ gives the i-th encoding that
\* value plus i - 1
mappingEncodings(encodings, random) ==
    [i \in DOMAIN encodings |->
        MkObj([mappedSsrc |-> Num(random + (i - 1)),
               rid |-> IfTruthy(Get(encodings[i], "rid")),
               ssrc |-> IfTruthy(Get(encodings[i], "ssrc")),
               scalabilityMode |-> IfTruthy(Get(encodings[i], "scalabilityMode"))])]

\* lines 255-284: what the call leaves, st being the locals after the two
\* loops over params.codecs; iterating params.encodings throws when it is
\* no array
mappingResult(params, st, random) ==
    [ret |-> IF st.error # "" THEN Throw(st.error)
             ELSE IF ~IsArray(Get(params, "encodings")) THEN Throw("TypeError")
             ELSE Return(MkObj([codecs |-> Arr(mappingCodecs(st)),
                                encodings |->
                                    Arr(mappingEncodings(Get(params, "encodings").v,
                                                         random))])),
     params |-> Set(params, "codecs", Arr(st.codecs))]

\* getProducerRtpParametersMapping(params, caps), random being the value the
\* call gets from generateRandomNumber.  [ret, params]: what the call returns
\* or throws, and params as the call leaves it
getProducerRtpParametersMapping(params, caps, random) ==
    mappingResult(params,
                  mappingRtxLoop(
                      mappingMediaLoop([codecs |-> Get(params, "codecs").v,
                                        map |-> <<>>, error |-> ""],
                                       1, Get(caps, "codecs").v),
                      1, Get(caps, "codecs").v),
                  random)

---------------------------------------------------------------------------
(* getConsumableRtpParameters *)

\* the payload type written to a consumable codec if it were the one of the
\* producer's codec
consumablePayloadTypeOfProducer(codec, matchedCapCodec) == Get(codec, "payloadType")

\* line 319: payloadType: matchedCapCodec.preferredPayloadType
consumablePayloadType(codec, matchedCapCodec) ==
    Get(matchedCapCodec, "preferredPayloadType")

\* lines 328-344: append the RTX codec of the capabilities, when there is one
consumablePushRtx(st, consumableCapRtxCodec) ==
    IF Truthy(consumableCapRtxCodec)
    THEN [st EXCEPT !.codecs = Append(@,
              MkObj([mimeType |-> Get(consumableCapRtxCodec, "mimeType"),
                     payloadType |-> Get(consumableCapRtxCodec, "preferredPayloadType"),
                     clockRate |-> Get(consumableCapRtxCodec, "clockRate"),
                     parameters |-> Get(consumableCapRtxCodec, "parameters"),
                     rtcpFeedback |-> Get(consumableCapRtxCodec, "rtcpFeedback")]))]
    ELSE st

\* lines 326-344: append the consumable codec and look for its RTX codec
consumablePush(st, capCodecs, consumableCodec) ==
    consumablePushRtx([st EXCEPT !.codecs = Append(@, consumableCodec)],
        Find(capCodecs,
             {j \in DOMAIN capCodecs :
                 /\ isRtxCodec(capCodecs[j])
                 /\ StrictEq(Get(Get(capCodecs[j], "parameters"), "apt"),
                             Get(consumableCodec, "payloadType"))}))

\* consumableMatched with the parameters of the capability codec
consumableMatchedCapParameters(st, codec, capCodecs, matchedCapCodec) ==
    IF matchedCapCodec = Undefined THEN [st EXCEPT !.error = "TypeError"]
    ELSE consumablePush(st, capCodecs,
             MkObj([mimeType |-> Get(matchedCapCodec, "mimeType"),
                    payloadType |-> consumablePayloadType(codec, matchedCapCodec),
                    clockRate |-> Get(matchedCapCodec, "clockRate"),
                    channels |-> Get(matchedCapCodec, "channels"),
                    parameters |-> Get(matchedCapCodec, "parameters"),
                    rtcpFeedback |-> Get(matchedCapCodec, "rtcpFeedback")]))

\* lines 313-326: the capability codec whose payload type is the mapped one;
\* reading its members throws when there is none
consumableMatched(st, codec, capCodecs, matchedCapCodec) ==
    IF matchedCapCodec = Undefined THEN [st EXCEPT !.error = "TypeError"]
    ELSE consumablePush(st, capCodecs,
             MkObj([mimeType |-> Get(matchedCapCodec, "mimeType"),
                    payloadType |-> consumablePayloadType(codec, matchedCapCodec),
                    clockRate |-> Get(matchedCapCodec, "clockRate"),
                    channels |-> Get(matchedCapCodec, "channels"),
                    parameters |-> Get(codec, "parameters"),
                    rtcpFeedback |-> Get(matchedCapCodec, "rtcpFeedback")]))

\* lines 309-315: the entry of the mapping for the codec; reading its
\* mappedPayloadType throws when there is none
consumableEntry(st, codec, capCodecs, entry) ==
    IF entry = Undefined THEN [st EXCEPT !.error = "TypeError"]
    ELSE consumableMatched(st, codec, capCodecs,
             Find(capCodecs,
                  {j \in DOMAIN capCodecs :
                      StrictEq(Get(capCodecs[j], "preferredPayloadType"),
                               Get(entry, "mappedPayloadType"))}))

\* lines 304-345: the loop over params.codecs; st holds codecs
\* (consumableParams.codecs) and error
RECURSIVE consumableCodecsLoop(_, _, _, _, _)
consumableCodecsLoop(st, i, codecs, capCodecs, mappingCodecList) ==
    IF st.error # "" \/ i > Len(codecs) THEN st
    ELSE IF isRtxCodec(codecs[i])
    THEN consumableCodecsLoop(st, i + 1, codecs, capCodecs, mappingCodecList)
    ELSE consumableCodecsLoop(
             consumableEntry(st, codecs[i], capCodecs,
                 Find(mappingCodecList,
                      {e \in DOMAIN mappingCodecList :
                          StrictEq(Get(mappingCodecList[e], "payloadType"),
                                   Get(codecs[i], "payloadType"))})),
             i + 1, codecs, capCodecs, mappingCodecList)

\* lines 347-364: the header extensions of the capabilities that have the
\* kind and can be sent
consumableHeaderExtensions(kind, capExts) ==
    LET kept == Filter(capExts,
                       {j \in DOMAIN capExts :
                           /\ StrictEq(Get(capExts[j], "kind"), kind)
                           /\ \/ StrictEq(Get(capExts[j], "direction"), Str("sendrecv"))
                              \/ StrictEq(Get(capExts[j], "direction"), Str("sendonly"))})
    IN  [j \in DOMAIN kept |->
            MkObj([uri |-> Get(kept[j], "uri"), id |-> Get(kept[j], "preferredId"),
                   encrypt |-> Get(kept[j], "preferredEncrypt"),
                   parameters |-> EmptyObj])]

\* consumableEncodings without the delete of rtx
consumableEncodingsKeepRtx(encodings, mappingEncodingList) ==
    IF encodings = Undefined THEN <<>>
    ELSE [i \in DOMAIN encodings.v |->
             Set(Delete(Delete(encodings.v[i], "rid"), "codecPayloadType"),
                 "ssrc", Get(mappingEncodingList[i], "mappedSsrc"))]

\* lines 367-383: clone(params.encodings) ?? [], each encoding without rid,
\* rtx and codecPayloadType and given the mapped ssrc
consumableEncodings(encodings, mappingEncodingList) ==
    IF encodings = Undefined THEN <<>>
    ELSE [i \in DOMAIN encodings.v |->
             Set(Delete(Delete(Delete(encodings.v[i], "rid"), "rtx"), "codecPayloadType"),
                 "ssrc", Get(mappingEncodingList[i], "mappedSsrc"))]

\* lines 347-390: what the call returns or throws, st being the locals after
\* the loop over params.codecs; lines 367-383 throw when rtpMapping.encodings
\* has no i-th entry for the i-th encoding, and reading params.rtcp.cname
\* throws when params.rtcp is not set
consumableResult(kind, params, caps, rtpMapping, st) ==
    IF st.error # "" THEN Throw(st.error)
    ELSE IF /\ Get(params, "encodings") # Undefined
            /\ Len(Get(params, "encodings").v) > Len(Get(rtpMapping, "encodings").v)
    THEN Throw("TypeError")
    ELSE IF Get(params, "rtcp") = Undefined THEN Throw("TypeError")
    ELSE Return(MkObj([codecs |-> Arr(st.codecs),
                       headerExtensions |->
                           Arr(consumableHeaderExtensions(kind,
                                   Get(caps, "headerExtensions").v)),
                       encodings |->
                           Arr(consumableEncodings(Get(params, "encodings"),
                                                   Get(rtpMapping, "encodings").v)),
                       rtcp |-> MkObj([cname |-> Get(Get(params, "rtcp"), "cname"),
                                       reducedSize |-> Bool(TRUE)])]))

\* getConsumableRtpParameters(kind, params, caps, rtpMapping): what the call
\* returns or throws (it leaves its arguments as they are)
getConsumableRtpParameters(kind, params, caps, rtpMapping) ==
    consumableResult(kind, params, caps, rtpMapping,
        consumableCodecsLoop([codecs |-> <<>>, error |-> ""], 1,
                             Get(params, "codecs").v, Get(caps, "codecs").v,
                             Get(rtpMapping, "codecs").v))

---------------------------------------------------------------------------
(* canConsume *)

\* lines 405-415: the consumable codecs for which
\* caps.codecs.find(capCodec => matchCodecs(capCodec, codec, { strict: true }))
\* finds a codec
matchingCodecsOf(codecs, capCodecs) ==
    Filter(codecs,
           {i \in DOMAIN codecs :
               \E j \in DOMAIN capCodecs :
                  matchCodecs(capCodecs[j], codecs[i], TRUE, FALSE).match})

\* isRtxCodec(matchingCodecs[0]) if the test were never made
firstIsRtxCodecNever(codecs) == FALSE

\* isRtxCodec(codecs[0])
firstIsRtxCodec(codecs) == isRtxCodec(codecs[1])

\* lines 417-422: ensure there is at least one media codec
canConsumeResult(matchingCodecs) ==
    IF Len(matchingCodecs) = 0 \/ firstIsRtxCodec(matchingCodecs)
    THEN Bool(FALSE) ELSE Bool(TRUE)

\* lines 403-422, v being the result of validateRtpCapabilities(caps)
canConsumeValidated(consumableParams, v) ==
    [ret |-> IF v.error # "" THEN Throw(v.error)
             ELSE Return(canConsumeResult(
                      matchingCodecsOf(Get(consumableParams, "codecs").v,
                                       Get(v.obj, "codecs").v))),
     caps |-> v.obj]

\* canConsume(consumableParams, caps).  [ret, caps]: what the call returns or
\* throws, and caps as the call leaves it
canConsume(consumableParams, caps) ==
    canConsumeValidated(consumableParams, validateRtpCapabilities(caps))

---------------------------------------------------------------------------
(* @mafalda-sfu/scalabilitymodes.  A scalability mode L<n>T<m> declares   *)
(* n spatial and m temporal layers; any other value, undefined included,   *)
(* parses to one spatial and one temporal layer.                           *)

\* parse(scalabilityMode)
parseScalabilityMode(x) ==
    CASE x = Str("L1T1") -> [spatialLayers |-> 1, temporalLayers |-> 1]
      [] x = Str("L1T3") -> [spatialLayers |-> 1, temporalLayers |-> 3]
      [] x = Str("L2T3") -> [spatialLayers |-> 2, temporalLayers |-> 3]
      [] x = Str("L3T2") -> [spatialLayers |-> 3, temporalLayers |-> 2]
      [] OTHER -> [spatialLayers |-> 1, temporalLayers |-> 1]

---------------------------------------------------------------------------
(* getConsumerRtpParameters *)

\* lines 470-478: the codec is dropped when no capability codec matched it,
\* and pushed otherwise with the feedback of the matched one,
\* matchedCapCodec.rtcpFeedback.filter(
\*     fb => enableRtx || fb.type !== 'nack' || fb.parameter)
consumerKeep(kept, codec, matchedCapCodec, enableRtx) ==
    IF ~Truthy(matchedCapCodec) THEN kept
    ELSE Append(kept,
             Set(codec, "rtcpFeedback",
                 Arr(Filter(Get(matchedCapCodec, "rtcpFeedback").v,
                            {j \in DOMAIN Get(matchedCapCodec, "rtcpFeedback").v :
                                \/ enableRtx
                                \/ ~StrictEq(Get(Get(matchedCapCodec, "rtcpFeedback").v[j],
                                                 "type"),
                                             Str("nack"))
                                \/ Truthy(Get(Get(matchedCapCodec, "rtcpFeedback").v[j],
                                              "parameter"))}))))

\* lines 461-479: the loop over the consumable codecs, from the i-th on;
\* matchedCapCodec is remoteRtpCapabilities.codecs.find(capCodec =>
\*     matchCodecs(capCodec, codec, { strict: true }))
RECURSIVE consumerFilterLoop(_, _, _, _, _)
consumerFilterLoop(kept, i, codecs, capCodecs, enableRtx) ==
    IF i > Len(codecs) THEN kept
    ELSE IF ~enableRtx /\ isRtxCodec(codecs[i])
    THEN consumerFilterLoop(kept, i + 1, codecs, capCodecs, enableRtx)
    ELSE consumerFilterLoop(
             consumerKeep(kept, codecs[i],
                          Find(capCodecs,
                               {j \in DOMAIN capCodecs :
                                   matchCodecs(capCodecs[j], codecs[i], TRUE, FALSE).match}),
                          enableRtx),
             i + 1, codecs, capCodecs, enableRtx)

\* lines 482-497: the sanitizing loop, from index idx down; st is
\* [codecs, rtxSupported].  The associated media codec of an RTX codec is
\* consumerParams.codecs.find(
\*     mediaCodec => mediaCodec.payloadType === codec.parameters.apt)
RECURSIVE consumerSanitize(_, _)
consumerSanitize(st, idx) ==
    IF idx < 1 THEN st
    ELSE IF ~isRtxCodec(st.codecs[idx]) THEN consumerSanitize(st, idx - 1)
    ELSE IF \E k \in DOMAIN st.codecs :
               StrictEq(Get(st.codecs[k], "payloadType"),
                        Get(Get(st.codecs[idx], "parameters"), "apt"))
    THEN consumerSanitize([st EXCEPT !.rtxSupported = TRUE], idx - 1)
    ELSE consumerSanitize([st EXCEPT !.codecs = Splice(@, idx)], idx - 1)

\* lines 459-497: the codecs of the consumer and rtxSupported
consumerCodecsOf(kept) ==
    consumerSanitize([codecs |-> kept, rtxSupported |-> FALSE], Len(kept))

\* noCompatibleMediaCodecs with the last codec looked at
noCompatibleMediaCodecsLast(codecs) ==
    Len(codecs) = 0 \/ isRtxCodec(codecs[Len(codecs)])

\* lines 500-503: no media codec is left
noCompatibleMediaCodecs(codecs) ==
    Len(codecs) = 0 \/ isRtxCodec(codecs[1])

\* lines 507-512: the header extensions the remote capabilities have with the
\* same id and uri
consumerHeaderExtensions(exts, capExts) ==
    Filter(exts, {i \in DOMAIN exts :
                     \E j \in DOMAIN capExts :
                        /\ StrictEq(Get(capExts[j], "preferredId"), Get(exts[i], "id"))
                        /\ StrictEq(Get(capExts[j], "uri"), Get(exts[i], "uri"))})

\* headerExtensions.some(ext => ext.uri === uri)
someUri(exts, uri) ==
    \E i \in DOMAIN exts : StrictEq(Get(exts[i], "uri"), Str(uri))

\* reducedFeedbackTypes with abs-send-time looked for first
reducedFeedbackTypesAbsSendTimeFirst(exts) ==
    IF someUri(exts, "http://www.webrtc.org/experiments/rtp-hdrext/abs-send-time")
    THEN {Str("transport-cc")}
    ELSE IF someUri(exts, "http://www.ietf.org/id/draft-holmer-rmcat-transport-wide-cc-extensions-01")
    THEN {Str("goog-remb")}
    ELSE {Str("transport-cc"), Str("goog-remb")}

\* lines 515-545: the feedback types removed from every codec
reducedFeedbackTypes(exts) ==
    IF someUri(exts, "http://www.ietf.org/id/draft-holmer-rmcat-transport-wide-cc-extensions-01")
    THEN {Str("goog-remb")}
    ELSE IF someUri(exts, "http://www.webrtc.org/experiments/rtp-hdrext/abs-send-time")
    THEN {Str("transport-cc")}
    ELSE {Str("transport-cc"), Str("goog-remb")}

\* lines 522-544: for (const codec of consumerParams.codecs)
\*     codec.rtcpFeedback = codec.rtcpFeedback.filter(fb => fb.type !== ...)
reduceFeedback(codecs, removed) ==
    [i \in DOMAIN codecs |->
        Set(codecs[i], "rtcpFeedback",
            Arr(Filter(Get(codecs[i], "rtcpFeedback").v,
                       {j \in DOMAIN Get(codecs[i], "rtcpFeedback").v :
                           Get(Get(codecs[i], "rtcpFeedback").v[j], "type")
                               \notin removed})))]

\* `L${encodings.length}T${spatialLayers}`: the spatial layers of the mode
\* written where its temporal layers belong
mangledScalabilityModeSpatial(n, parsed) ==
    Str("L" \o ToString(n) \o "T" \o ToString(parsed.spatialLayers))

\* lines 570-572: `L${encodings.length}T${temporalLayers}`
mangledScalabilityMode(n, parsed) ==
    Str("L" \o ToString(n) \o "T" \o ToString(parsed.temporalLayers))

\* lines 562-573: with simulcast the spatial layers of the mode are mangled
consumerScalabilityMode(encodings, scalabilityMode) ==
    IF Len(encodings) > 1
    THEN mangledScalabilityMode(Len(encodings), parseScalabilityMode(scalabilityMode))
    ELSE scalabilityMode

\* lines 581-587: encodings.reduce((maxBitrate, encoding) => ..., 0), from the
\* i-th encoding on
RECURSIVE maxEncodingMaxBitrate(_, _, _)
maxEncodingMaxBitrate(encodings, i, maxBitrate) ==
    IF i > Len(encodings) THEN maxBitrate
    ELSE maxEncodingMaxBitrate(encodings, i + 1,
             IF /\ Truthy(Get(encodings[i], "maxBitrate"))
                /\ Get(encodings[i], "maxBitrate").t = "number"
                /\ Get(encodings[i], "maxBitrate").v > maxBitrate
             THEN Get(encodings[i], "maxBitrate").v
             ELSE maxBitrate)

\* lines 548-594: the single encoding of a Consumer that is not a pipe
consumerEncoding(encodings, rtxSupported, ssrc) ==
    MkObj([ssrc |-> Num(ssrc),
           rtx |-> IF rtxSupported THEN MkObj([ssrc |-> Num(ssrc + 1)]) ELSE Absent,
           scalabilityMode |->
               \* lines 558-564: the scalabilityMode of the first encoding that
               \* has one
               IfTruthy(consumerScalabilityMode(
                            encodings,
                            Get(Find(encodings,
                                     {i \in DOMAIN encodings :
                                         Truthy(Get(encodings[i], "scalabilityMode"))}),
                                "scalabilityMode"))),
           maxBitrate |-> IfTruthy(Num(maxEncodingMaxBitrate(encodings, 1, 0)))])

\* pipeEncodingOf with rtx set whether RTX is supported or not
pipeEncodingOfAlwaysRtx(encoding, i, rtxSupported, baseSsrc, baseRtxSsrc) ==
    Set(Set(encoding, "ssrc", Num(baseSsrc + (i - 1))),
        "rtx", MkObj([ssrc |-> Num(baseRtxSsrc + (i - 1))]))

\* lines 604-612: the i-th encoding of a pipe Consumer
pipeEncodingOf(encoding, i, rtxSupported, baseSsrc, baseRtxSsrc) ==
    IF rtxSupported
    THEN Set(Set(encoding, "ssrc", Num(baseSsrc + (i - 1))),
             "rtx", MkObj([ssrc |-> Num(baseRtxSsrc + (i - 1))]))
    ELSE Delete(Set(encoding, "ssrc", Num(baseSsrc + (i - 1))), "rtx")

\* lines 547-616: the encodings of the Consumer; the calls of
\* generateRandomNumber return opt.random and, in a pipe, opt.random2 next
consumerEncodings(encodings, rtxSupported, opt) ==
    IF ~opt.pipe
    THEN <<consumerEncoding(encodings, rtxSupported, opt.random)>>
    ELSE [i \in DOMAIN encodings |->
             pipeEncodingOf(clone(encodings[i]), i, rtxSupported,
                            opt.random, opt.random2)]

\* lines 507-618, exts being the header extensions of the Consumer
consumerParamsOf(consumable, st, exts, opt) ==
    MkObj([codecs |-> Arr(reduceFeedback(st.codecs, reducedFeedbackTypes(exts))),
           headerExtensions |-> Arr(exts),
           encodings |-> Arr(consumerEncodings(Get(consumable, "encodings").v,
                                               st.rtxSupported, opt)),
           rtcp |-> Get(consumable, "rtcp")])

\* lines 499-618, st being the codecs left and rtxSupported
consumerSanitized(consumable, remote, st, opt) ==
    IF noCompatibleMediaCodecs(st.codecs)
    THEN Throw("UnsupportedError: no compatible media codecs")
    ELSE Return(consumerParamsOf(
                    consumable, st,
                    consumerHeaderExtensions(Get(consumable, "headerExtensions").v,
                                             Get(remote, "headerExtensions").v),
                    opt))

\* lines 461-479: the clone of the consumable codecs after the loop; the
\* codecs that are not skipped and that a remote codec matches have their
\* feedback replaced
consumerWritten(codecs, capCodecs, enableRtx) ==
    [i \in DOMAIN codecs |->
        IF ~enableRtx /\ isRtxCodec(codecs[i]) THEN codecs[i]
        ELSE IF \A j \in DOMAIN capCodecs :
                   ~matchCodecs(capCodecs[j], codecs[i], TRUE, FALSE).match
        THEN codecs[i]
        ELSE consumerFilterLoop(<<>>, 1, <<codecs[i]>>, capCodecs, enableRtx)[1]]

\* what the call leaves: its result, the remote capabilities with their
\* codecs validated, and the consumable parameters, of which the call wrote
\* to clones only: written is the clone of the codecs after the loop of
\* lines 461-479, and the encodings of a pipe Consumer are the clone of the
\* consumable encodings after the loop of lines 603-615
consumerFrameOf(consumable, remoteLeft, result, written, pipe) ==
    [ret |-> result,
     remoteRtpCapabilities |-> remoteLeft,
     consumableRtpParameters |->
         leftByWrites(leftByWrites(consumable, "codecs", Arr(written)),
                      "encodings",
                      IF pipe /\ result.kind = "return"
                      THEN Get(result.value, "encodings")
                      ELSE Get(consumable, "encodings"))]

\* lines 454-618, r being the result of validating the remote codecs
consumerValidated(consumable, remote, r, opt) ==
    consumerFrameOf(
        consumable, Set(remote, "codecs", r.obj),
        IF r.error # "" THEN Throw(r.error)
        ELSE consumerSanitized(
                 consumable, remote,
                 consumerCodecsOf(
                     consumerFilterLoop(<<>>, 1,
                                        (clone(Get(consumable, "codecs"))).v,
                                        r.obj.v, opt.enableRtx)),
                 opt),
        IF r.error # "" THEN Get(consumable, "codecs").v
        ELSE consumerWritten((clone(Get(consumable, "codecs"))).v, r.obj.v,
                             opt.enableRtx),
        opt.pipe)

\* getConsumerRtpParameters({ consumableRtpParameters, remoteRtpCapabilities,
\* pipe, enableRtx }), opt being [pipe, enableRtx, random, random2].
\* [ret, remoteRtpCapabilities, consumableRtpParameters]: what the call
\* returns or throws, and the remote capabilities and the consumable
\* parameters as the call leaves them
getConsumerRtpParameters(consumable, remote, opt) ==
    consumerValidated(consumable, remote,
                      validateCodecsFrom(Done(Get(remote, "codecs")), 1), opt)

---------------------------------------------------------------------------
(* getPipeConsumerRtpParameters *)

\* pipeFeedbackKept with nack kept whether RTX is enabled or not
pipeFeedbackKeptNack(fb, enableRtx) ==
    \/ StrictEq(Get(fb, "type"), Str("nack")) /\ StrictEq(Get(fb, "parameter"), Str("pli"))
    \/ StrictEq(Get(fb, "type"), Str("ccm")) /\ StrictEq(Get(fb, "parameter"), Str("fir"))
    \/ StrictEq(Get(fb, "type"), Str("nack")) /\ ~Truthy(Get(fb, "parameter"))

\* lines 652-655: the feedback a pipe Consumer keeps
pipeFeedbackKept(fb, enableRtx) ==
    \/ StrictEq(Get(fb, "type"), Str("nack")) /\ StrictEq(Get(fb, "parameter"), Str("pli"))
    \/ StrictEq(Get(fb, "type"), Str("ccm")) /\ StrictEq(Get(fb, "parameter"), Str("fir"))
    \/ enableRtx /\ StrictEq(Get(fb, "type"), Str("nack")) /\ ~Truthy(Get(fb, "parameter"))

\* lines 646-659: the clone of the consumable codecs after the loop; the RTX
\* codecs are skipped when RTX is not enabled, the others have their feedback
\* narrowed
pipeNarrowed(codecs, enableRtx) ==
    [i \in DOMAIN codecs |->
        IF ~enableRtx /\ isRtxCodec(codecs[i]) THEN codecs[i]
        ELSE Set(codecs[i], "rtcpFeedback",
                 Arr(Filter(Get(codecs[i], "rtcpFeedback").v,
                            {j \in DOMAIN Get(codecs[i], "rtcpFeedback").v :
                                pipeFeedbackKept(Get(codecs[i], "rtcpFeedback").v[j],
                                                 enableRtx)})))]

\* lines 634-693, codecs and encodings being the clones of the consumable
\* ones as the loops leave them (?? [] for a member not set).  Filtering
\* the rtcpFeedback of a codec or the headerExtensions throws when the
\* member is not set.  Lines 662-670: the header extensions are the
\* consumable ones less transport MID and those of bandwidth estimation
pipeConsumerResult(consumable, codecs, encodings, enableRtx) ==
    [ret |->
        IF \E i \in DOMAIN codecs :
              /\ enableRtx \/ ~isRtxCodec(codecs[i])
              /\ ~IsArray(Get(Get(consumable, "codecs").v[i], "rtcpFeedback"))
        THEN Throw("TypeError")
        ELSE IF ~IsArray(Get(consumable, "headerExtensions")) THEN Throw("TypeError")
        ELSE Return(MkObj([codecs |->
                               Arr(Filter(codecs,
                                          {i \in DOMAIN codecs :
                                              enableRtx \/ ~isRtxCodec(codecs[i])})),
                           headerExtensions |->
                               Arr(Filter(
                                   Get(consumable, "headerExtensions").v,
                                   {i \in DOMAIN Get(consumable, "headerExtensions").v :
                                       Get(Get(consumable, "headerExtensions").v[i], "uri")
                                           \notin {Str("urn:ietf:params:rtp-hdrext:sdes:mid"),
                                                   Str("http://www.webrtc.org/experiments/rtp-hdrext/abs-send-time"),
                                                   Str("http://www.ietf.org/id/draft-holmer-rmcat-transport-wide-cc-extensions-01")}})),
                           encodings |-> Arr(encodings),
                           rtcp |-> Get(consumable, "rtcp")])),
     consumableRtpParameters |->
         leftByWrites(leftByWrites(consumable, "codecs", Arr(codecs)),
                      "encodings", Arr(encodings))]

\* getPipeConsumerRtpParameters({ consumableRtpParameters, enableRtx }), opt
\* being [enableRtx, random, random2] with the values the two calls of
\* generateRandomNumber return.  [ret, consumableRtpParameters]: what the
\* call returns or throws, and the consumable parameters as the call leaves
\* them
getPipeConsumerRtpParameters(consumable, opt) ==
    pipeConsumerResult(
        consumable,
        IF Get(consumable, "codecs") = Undefined THEN <<>>
        ELSE pipeNarrowed((clone(Get(consumable, "codecs"))).v, opt.enableRtx),
        IF Get(consumable, "encodings") = Undefined THEN <<>>
        ELSE [i \in DOMAIN Get(consumable, "encodings").v |->
                 pipeEncodingOf(clone(Get(consumable, "encodings").v[i]), i,
                                opt.enableRtx, opt.random, opt.random2)],
        opt.enableRtx)

---------------------------------------------------------------------------
(* Inputs *)

\* the sequences over S of length at most n
SeqsUpTo(S, n) == UNION {[1..k -> S] : k \in 0..n}

\* longest rtcpFeedback list of a codec passed to validateRtpCapabilities
MaxFeedback == 1

\* the codecs passed to validateRtpCapabilities: every member unset, of its
\* type or of another one
RawCodecs ==
    {MkObj([mimeType |-> m, preferredPayloadType |-> pt, clockRate |-> cr,
            channels |-> ch, parameters |-> pa, rtcpFeedback |-> fb]) :
        m \in {Absent, Str("audio/opus"), Str("VIDEO/vp8"), Str("text/plain")},
        pt \in {Absent, Num(100), Str("100")},
        cr \in {Num(48000), NaN, Str("48000")},
        ch \in {Absent, Num(2), Str("2")},
        pa \in {Absent, Str("x"), EmptyObj,
                MkObj([apt |-> Num(100)]), MkObj([apt |-> Str("100")]),
                MkObj([useinbandfec |-> Undefined, num_streams |-> Num(2)]),
                MkObj([useinbandfec |-> Bool(TRUE)])},
        fb \in {Absent, Str("x")}
               \cup {Arr(q) :
                        q \in SeqsUpTo({MkObj([type |-> ty, parameter |-> pa]) :
                                           ty \in {Absent, Str("nack"), Num(1)},
                                           pa \in {Absent, Str("pli"), Num(1)}}
                                       \cup {Num(5)},
                                       MaxFeedback)}}

RawHeaderExtensions ==
    {MkObj([kind |-> k, uri |-> u, preferredId |-> id, preferredEncrypt |-> en,
            direction |-> d]) :
        k \in {Absent, Str("audio"), Str("video"), Str("data")},
        u \in {Absent, Str("urn:ietf:params:rtp-hdrext:sdes:mid")},
        id \in {Absent, Num(1)},
        en \in {Absent, Bool(FALSE), Bool(TRUE), Str("yes")},
        d \in {Absent, Str(""), Str("recvonly"), Num(1)}}

\* the capabilities passed to validateRtpCapabilities: one codec or one
\* header extension of every shape, the lists unset, and a few longer ones
RawCapabilities ==
    {MkObj([codecs |-> Arr(<<c>>), headerExtensions |-> Absent]) : c \in RawCodecs}
    \cup {MkObj([codecs |-> Absent, headerExtensions |-> Arr(<<e>>)]) :
            e \in RawHeaderExtensions}
    \cup {MkObj([codecs |-> Arr(<<c, d>>), headerExtensions |-> Arr(<<e>>)]) :
            c \in {MkObj([mimeType |-> Str("audio/opus"), clockRate |-> Num(48000)])},
            d \in {MkObj([mimeType |-> Str("VIDEO/vp8"), clockRate |-> cr,
                          channels |-> Num(2)]) : cr \in {Num(90000), Absent}},
            e \in {MkObj([kind |-> k, uri |-> Str("urn:ietf:params:rtp-hdrext:sdes:mid"),
                          preferredId |-> Num(1)]) : k \in {Str("audio"), Str("data")}}}
    \cup {Undefined, EmptyObj, MkObj([codecs |-> Str("x")]),
          MkObj([headerExtensions |-> Str("x")])}

\* the codecs passed to validateRtpCodecCapability and then to matchCodecs
MatchParameters ==
    {EmptyObj,
     MkObj([num_streams |-> Num(2), coupled_streams |-> Num(1)]),
     MkObj([num_streams |-> NaN, coupled_streams |-> Num(1)]),
     MkObj([num_streams |-> Num(2), coupled_streams |-> Undefined]),
     Obj(("profile-level-id" :> Str("42e01f")) @@ ("packetization-mode" :> Num(1))),
     Obj(("profile-level-id" :> Str("4d001f")) @@ ("level-asymmetry-allowed" :> Num(1))),
     Obj(("profile-level-id" :> Str("4d001e")) @@ ("level-asymmetry-allowed" :> Num(1))),
     Obj(("profile-level-id" :> Str("zzzzzz"))),
     Obj(("profile-id" :> Num(2))),
     Obj(("profile-id" :> NaN))}

\* longest list of requested media codecs, the bulk requests aside
MaxMediaCodecs == 2

\* most video codecs without a payload type in a bulk request: 16 of them
\* take the 32 values of the pool
MaxFill == 16

\* a feedback entry
Fb(type, parameter) == MkObj([type |-> Str(type), parameter |-> Str(parameter)])

\* the supported tables: the codecs of the table are written as the module
\* declares them, before any call has normalised them.  opusPt and vp8Pt
\* are the preferred payload types of audio/opus and video/VP8, or Absent
SupportedTable(opusPt, vp8Pt) ==
    MkObj([codecs |-> Arr(<<
               MkObj([kind |-> Str("audio"), mimeType |-> Str("audio/opus"),
                      preferredPayloadType |-> opusPt,
                      clockRate |-> Num(48000), channels |-> Num(2),
                      rtcpFeedback |-> Arr(<<MkObj([type |-> Str("nack")]),
                                             MkObj([type |-> Str("transport-cc")])>>)]),
               MkObj([kind |-> Str("audio"), mimeType |-> Str("audio/PCMU"),
                      preferredPayloadType |-> Num(0), clockRate |-> Num(8000),
                      rtcpFeedback |-> Arr(<<MkObj([type |-> Str("transport-cc")])>>)]),
               MkObj([kind |-> Str("video"), mimeType |-> Str("video/VP8"),
                      preferredPayloadType |-> vp8Pt, clockRate |-> Num(90000),
                      rtcpFeedback |-> Arr(<<MkObj([type |-> Str("nack")]),
                                             Fb("nack", "pli"), Fb("ccm", "fir"),
                                             MkObj([type |-> Str("goog-remb")]),
                                             MkObj([type |-> Str("transport-cc")])>>)]),
               MkObj([kind |-> Str("video"), mimeType |-> Str("video/H264"),
                      clockRate |-> Num(90000),
                      parameters |-> Obj(("level-asymmetry-allowed" :> Num(1))),
                      rtcpFeedback |-> Arr(<<MkObj([type |-> Str("nack")]),
                                             Fb("nack", "pli"),
                                             MkObj([type |-> Str("goog-remb")])>>)])>>),
           headerExtensions |-> Arr(<<
               MkObj([kind |-> Str("audio"),
                      uri |-> Str("urn:ietf:params:rtp-hdrext:sdes:mid"),
                      preferredId |-> Num(1)]),
               MkObj([kind |-> Str("video"),
                      uri |-> Str("urn:ietf:params:rtp-hdrext:sdes:mid"),
                      preferredId |-> Num(1)]),
               MkObj([kind |-> Str("video"),
                      uri |-> Str("http://www.webrtc.org/experiments/rtp-hdrext/abs-send-time"),
                      preferredId |-> Num(4), direction |-> Str("sendrecv")]),
               MkObj([kind |-> Str("video"),
                      uri |-> Str("http://www.ietf.org/id/draft-holmer-rmcat-transport-wide-cc-extensions-01"),
                      preferredId |-> Num(5), direction |-> Str("sendrecv")]),
               MkObj([kind |-> Str("video"),
                      uri |-> Str("urn:3gpp:video-orientation"),
                      preferredId |-> Num(11), direction |-> Str("recvonly")])>>)])

\* the tables a router is generated from: the payload types the table sets
\* are static ones (audio/PCMU at 0) or, for audio/opus and video/VP8,
\* values of the dynamic range
SupportedTables ==
    {SupportedTable(o, v) : o \in {Absent, Num(101)}, v \in {Absent, Num(100)}}

\* the media codecs a router is asked for
RequestedCodecs ==
    {MkObj([mimeType |-> Str("audio/opus"), clockRate |-> Num(48000),
            channels |-> Num(2), preferredPayloadType |-> pt]) : pt \in {Absent, Num(101)}}
    \cup {MkObj([mimeType |-> Str("audio/PCMU"), clockRate |-> Num(8000),
                 preferredPayloadType |-> pt]) : pt \in {Absent, Num(101)}}
    \cup {MkObj([mimeType |-> Str("video/vp8"), clockRate |-> Num(90000),
                 preferredPayloadType |-> pt]) : pt \in {Absent, Num(101)}}
    \cup {MkObj([mimeType |-> Str("video/H264"), clockRate |-> Num(90000),
                 parameters |-> Obj(("packetization-mode" :> Num(1))
                                    @@ ("profile-level-id" :> Str("42e01f"))),
                 preferredPayloadType |-> pt]) : pt \in {Absent, Num(101)}}
    \cup {MkObj([mimeType |-> Str("video/VP9"), clockRate |-> Num(90000)]),
          MkObj([mimeType |-> Str("video/VP8")])}

---------------------------------------------------------------------------
(* Module state and calls *)

\* the declared contents of DynamicPayloadTypes
DynamicPayloadTypesDeclared ==
    <<100, 101, 102, 103, 104, 105, 106, 107, 108, 109, 110, 111, 112, 113, 114,
      115, 116, 117, 118, 119, 120, 121, 122, 123, 124, 125, 126, 127, 96, 97, 98,
      99>>

\* the state before any call, for a given supported table
InitWith(table) ==
    /\ supportedRtpCapabilities = table
    /\ DynamicPayloadTypes = DynamicPayloadTypesDeclared
    /\ pc = "idle"
    /\ args = EmptyObj
    /\ args0 = EmptyObj
    /\ ret = [kind |-> "none", value |-> Undefined, error |-> ""]
    /\ draws = <<>>

\* the frame a call of a validate* function leaves: its argument `key` as
\* the call left it (args) and as it was passed (args0), and ret
ValidateFrame(key, given, r) ==
    /\ args' = Obj(key :> r.obj)
    /\ args0' = Obj(key :> given)
    /\ ret' = IF r.error # "" THEN Throw(r.error) ELSE Return(Undefined)

\* a call of validateRtpCapabilities(caps)
ValidateRtpCapabilities ==
    /\ pc = "idle"
    /\ \E caps \in RawCapabilities :
          ValidateFrame("caps", caps, validateRtpCapabilities(caps))
    /\ pc' = "validateRtpCapabilities"
    /\ UNCHANGED <<supportedRtpCapabilities, DynamicPayloadTypes, draws>>

\* a second call of validateRtpCapabilities, on the capabilities a first
\* call has normalised
ValidateRtpCapabilitiesAgain ==
    /\ pc = "validateRtpCapabilities"
    /\ ret.kind = "return"
    /\ ValidateFrame("caps", Get(args, "caps"), validateRtpCapabilities(Get(args, "caps")))
    /\ pc' = "validateRtpCapabilities again"
    /\ UNCHANGED <<supportedRtpCapabilities, DynamicPayloadTypes, draws>>

\* a call of validateRtpCodecCapability(codec)
ValidateRtpCodecCapability ==
    /\ pc = "idle"
    /\ \E m \in {Str("audio/opus"), Str("audio/multiopus"), Str("video/VP8"),
                  Str("VIDEO/vp8"), Str("video/H264"), Str("video/h264-svc"),
                  Str("video/VP9"), Str("video/"), Absent},
          cr \in {Num(90000), NaN, Absent},
          ch \in {Absent, Num(2), NaN},
          pa \in MatchParameters :
          ValidateFrame("codec",
                        MkObj([mimeType |-> m, clockRate |-> cr, channels |-> ch,
                               parameters |-> pa]),
                        validateRtpCodecCapability(
                            MkObj([mimeType |-> m, clockRate |-> cr, channels |-> ch,
                                   parameters |-> pa])))
    /\ pc' = "validateRtpCodecCapability"
    /\ UNCHANGED <<supportedRtpCapabilities, DynamicPayloadTypes, draws>>

\* the frame a call of matchCodecs leaves, r being its result; `same` tells
\* that aCodec and bCodec are one object
MatchFrame(aCodec, bCodec, strict, modify, same, r) ==
    /\ args' = MkObj([aCodec |-> r.aCodec,
                      bCodec |-> IF same THEN r.aCodec ELSE bCodec,
                      strict |-> Bool(strict), modify |-> Bool(modify),
                      same |-> Bool(same)])
    /\ args0' = MkObj([aCodec |-> aCodec, bCodec |-> bCodec])
    /\ ret' = Return(Bool(r.match))

\* the codec validated last with its parameters replaced by pa and, when it
\* is video/VP8, its mime type by m
OtherCodec(pa, m) ==
    Set(Set(Get(args0, "codec"), "parameters", pa), "mimeType",
        IF Get(Get(args, "codec"), "mimeType") = Str("video/VP8")
        THEN m ELSE Get(Get(args, "codec"), "mimeType"))

\* a call of matchCodecs(aCodec, bCodec, { strict, modify }) on a codec that
\* validateRtpCodecCapability accepted: with itself (same is true: aCodec
\* and bCodec are one object), or with an accepted codec that differs from
\* it in the case of its mime type or in its parameters
MatchCodecs ==
    /\ pc = "validateRtpCodecCapability"
    /\ ret.kind = "return"
    /\ \E strict \in BOOLEAN, modify \in BOOLEAN :
          \/ MatchFrame(Get(args, "codec"), Get(args, "codec"), strict, modify, TRUE,
                        matchCodecs(Get(args, "codec"), Get(args, "codec"), strict, modify))
          \/ \E bCodec \in {r.obj : r \in {o \in {validateRtpCodecCapability(OtherCodec(pa, m)) :
                                                   pa \in MatchParameters,
                                                   m \in {Str("video/VP8"), Str("VIDEO/vp8")}} :
                                              o.error = ""}} :
                MatchFrame(Get(args, "codec"), bCodec, strict, modify, FALSE,
                           matchCodecs(Get(args, "codec"), bCodec, strict, modify))
    /\ pc' = "matchCodecs"
    /\ UNCHANGED <<supportedRtpCapabilities, DynamicPayloadTypes, draws>>

NextMatch == ValidateRtpCodecCapability \/ MatchCodecs
SpecMatch == InitWith(EmptyObj) /\ [][NextMatch]_vars

\* the frame a call of generateRouterRtpCapabilities leaves, r being its
\* result
RouterFrame(mediaCodecs, r) ==
    /\ args' = MkObj([mediaCodecs |-> r.mediaCodecs])
    /\ args0' = MkObj([mediaCodecs |-> mediaCodecs])
    /\ ret' = r.ret
    /\ draws' = r.draws
    /\ supportedRtpCapabilities' = r.supported
    /\ pc' = "generateRouterRtpCapabilities"
    /\ DynamicPayloadTypes' = r.pool

\* a call of generateRouterRtpCapabilities(given); mediaCodecs defaults to
\* [] when the argument is undefined
RouterCall(given) ==
    RouterFrame(IF given = Undefined THEN Arr(<<>>) ELSE given,
                generateRouterRtpCapabilities(
                    IF given = Undefined THEN Arr(<<>>) ELSE given,
                    supportedRtpCapabilities, DynamicPayloadTypes))

\* generateRouterRtpCapabilities called with a short list of any codecs,
\* with a bulk list (one codec or none, up to MaxFill video codecs, one
\* codec or none), with a value that is no array, or with no argument
GenerateRouterRtpCapabilities ==
    /\ pc = "idle"
    /\ \/ \E q \in SeqsUpTo(RequestedCodecs, MaxMediaCodecs) : RouterCall(Arr(q))
       \/ \E h \in SeqsUpTo(RequestedCodecs, 1), k \in 1..MaxFill,
             t \in SeqsUpTo(RequestedCodecs, 1) :
             RouterCall(Arr(h \o [j \in 1..k |->
                                     MkObj([mimeType |-> Str("video/VP8"),
                                            clockRate |-> Num(90000)])]
                              \o t))
       \/ \E given \in {Str("video/VP8"), Undefined} : RouterCall(given)

\* generateRouterRtpCapabilities called once more, after any calls, with the
\* table and the pool as the module holds them: a request of one codec or
\* none, of video/vp8 and one more codec, or of MaxFill video codecs and
\* video/vp8
GenerateRouterRtpCapabilitiesAgain ==
    \/ \E q \in SeqsUpTo(RequestedCodecs, 1) : RouterCall(Arr(q))
    \/ \E a \in {c \in RequestedCodecs : Get(c, "mimeType") = Str("video/vp8")},
          b \in RequestedCodecs : RouterCall(Arr(<<a, b>>))
    \/ \E a \in {c \in RequestedCodecs : Get(c, "mimeType") = Str("video/vp8")} :
          RouterCall(Arr([j \in 1..MaxFill |->
                             MkObj([mimeType |-> Str("video/VP8"),
                                    clockRate |-> Num(90000)])]
                         \o <<a>>))

InitRouter == \E table \in SupportedTables : InitWith(table)
NextRouter == GenerateRouterRtpCapabilities
SpecRouter == InitRouter /\ [][NextRouter]_vars
SpecRouterCalls == InitRouter /\ [][GenerateRouterRtpCapabilitiesAgain]_vars

NextValidate == ValidateRtpCapabilities \/ ValidateRtpCapabilitiesAgain
SpecValidate == InitWith(EmptyObj) /\ [][NextValidate]_vars

---------------------------------------------------------------------------
(* Producers: getProducerRtpParametersMapping and getConsumableRtpParameters *)
(* on the capabilities of a router.                                          *)

\* the media codecs the routers of the producers are generated from
ProducerRouterRequests ==
    {<<MkObj([mimeType |-> Str("video/VP8"), clockRate |-> Num(90000)])>>}
    \cup {<<MkObj([mimeType |-> Str("audio/opus"), clockRate |-> Num(48000),
              channels |-> Num(2), preferredPayloadType |-> pt]),
       MkObj([mimeType |-> Str("video/VP8"), clockRate |-> Num(90000)])>> :
        pt \in {Absent, Num(96)}}
    \cup {<<MkObj([mimeType |-> Str("video/VP8"), clockRate |-> Num(90000)]),
            MkObj([mimeType |-> Str("video/H264"), clockRate |-> Num(90000),
                   parameters |-> Obj(("packetization-mode" :> Num(1))
                                      @@ ("profile-level-id" :> Str("42e01f")))])>>}

\* longest list of codecs of a producer, the lists of FullProducerCodecs
\* aside
MaxProducerCodecs == 2

\* most encodings of a producer
MaxEncodings == 3

\* lists of producer codecs with every media codec followed by its RTX codec
FullProducerCodecs ==
    {<<MkObj([mimeType |-> Str("audio/opus"), payloadType |-> Num(111),
              clockRate |-> Num(48000), channels |-> Num(2), parameters |-> EmptyObj]),
       MkObj([mimeType |-> Str("audio/rtx"), payloadType |-> Num(112),
              clockRate |-> Num(48000), parameters |-> MkObj([apt |-> Num(111)])])>>,
     <<MkObj([mimeType |-> Str("audio/opus"), payloadType |-> Num(111),
              clockRate |-> Num(48000), channels |-> Num(2), parameters |-> EmptyObj]),
       MkObj([mimeType |-> Str("video/VP8"), payloadType |-> Num(96),
              clockRate |-> Num(90000), parameters |-> EmptyObj]),
       MkObj([mimeType |-> Str("video/rtx"), payloadType |-> Num(97),
              clockRate |-> Num(90000), parameters |-> MkObj([apt |-> Num(96)])])>>,
     <<MkObj([mimeType |-> Str("video/H264"), payloadType |-> Num(102),
              clockRate |-> Num(90000),
              parameters |-> Obj("packetization-mode" :> Num(1))]),
       MkObj([mimeType |-> Str("video/rtx"), payloadType |-> Num(103),
              clockRate |-> Num(90000), parameters |-> MkObj([apt |-> Num(102)])]),
       MkObj([mimeType |-> Str("video/VP8"), payloadType |-> Num(96),
              clockRate |-> Num(90000), parameters |-> EmptyObj]),
       MkObj([mimeType |-> Str("video/rtx"), payloadType |-> Num(97),
              clockRate |-> Num(90000), parameters |-> MkObj([apt |-> Num(96)])])>>}

\* k encodings of a producer: the odd ones with every member set, the even
\* ones with none
ProducerEncodings(k) ==
    [i \in 1..k |->
        IF i % 2 = 1
        THEN MkObj([rid |-> Str("r"), ssrc |-> Num(1111 * i),
                    scalabilityMode |-> Str("L1T3"),
                    rtx |-> MkObj([ssrc |-> Num(2222 * i)]),
                    codecPayloadType |-> Num(96), maxBitrate |-> Num(500000)])
        ELSE EmptyObj]

\* the parameters of the producers: up to MaxProducerCodecs of the codecs
\* below, or a list of FullProducerCodecs
ProducerParameters ==
    {MkObj([codecs |-> Arr(q), encodings |-> e, rtcp |-> MkObj([cname |-> Str("c")])]) :
        q \in SeqsUpTo(
                 {MkObj([mimeType |-> Str("audio/opus"), payloadType |-> Num(111),
                         clockRate |-> Num(48000), channels |-> Num(2),
                         parameters |-> EmptyObj]),
                  MkObj([mimeType |-> Str("video/VP8"), payloadType |-> Num(96),
                         clockRate |-> Num(90000), parameters |-> EmptyObj]),
                  MkObj([mimeType |-> Str("video/rtx"), payloadType |-> Num(97),
                         clockRate |-> Num(90000),
                         parameters |-> MkObj([apt |-> Num(96)])]),
                  MkObj([mimeType |-> Str("video/H264"), payloadType |-> Num(102),
                         clockRate |-> Num(90000),
                         parameters |-> Obj("packetization-mode" :> Num(1))]),
                  MkObj([mimeType |-> Str("video/rtx"), payloadType |-> Num(99),
                         clockRate |-> Num(90000),
                         parameters |-> MkObj([apt |-> Num(99)])]),
                  MkObj([mimeType |-> Str("video/VP9"), payloadType |-> Num(98),
                         clockRate |-> Num(90000), parameters |-> EmptyObj])},
                 MaxProducerCodecs)
              \cup FullProducerCodecs,
        e \in {Absent} \cup {Arr(ProducerEncodings(k)) : k \in 0..MaxEncodings}}
    \cup {MkObj([codecs |-> Arr(q), encodings |-> Arr(ProducerEncodings(1))]) :
            q \in FullProducerCodecs}

\* the state a call of generateRouterRtpCapabilities(mediaCodecs) leaves
\* when it is the first call made, r being its result
AfterRouterCall(mediaCodecs, r) ==
    /\ supportedRtpCapabilities = r.supported
    /\ DynamicPayloadTypes = r.pool
    /\ pc = "generateRouterRtpCapabilities"
    /\ args = MkObj([mediaCodecs |-> r.mediaCodecs])
    /\ args0 = MkObj([mediaCodecs |-> mediaCodecs])
    /\ ret = r.ret
    /\ draws = r.draws

\* a router has been generated
InitProducer ==
    /\ \E table \in SupportedTables, q \in ProducerRouterRequests :
          AfterRouterCall(Arr(q),
              generateRouterRtpCapabilities(Arr(q), table, DynamicPayloadTypesDeclared))
    /\ ret.kind = "return"

\* the frame a call of getProducerRtpParametersMapping leaves, r being its
\* result
MappingFrame(params, caps, r) ==
    /\ args' = MkObj([params |-> r.params, caps |-> caps])
    /\ args0' = MkObj([params |-> params, caps |-> caps])
    /\ ret' = r.ret

\* a call of getProducerRtpParametersMapping(params, caps), caps being the
\* capabilities of the router
GetProducerRtpParametersMapping ==
    /\ pc = "generateRouterRtpCapabilities"
    /\ ret.kind = "return"
    /\ \E params \in ProducerParameters, random \in generateRandomNumber :
          MappingFrame(params, ret.value,
                       getProducerRtpParametersMapping(params, ret.value, random))
    /\ pc' = "getProducerRtpParametersMapping"
    /\ UNCHANGED <<supportedRtpCapabilities, DynamicPayloadTypes, draws>>

\* a call of getConsumableRtpParameters(kind, params, caps, rtpMapping) with
\* the mapping that getProducerRtpParametersMapping returned for params and
\* caps
GetConsumableRtpParameters ==
    /\ pc = "getProducerRtpParametersMapping"
    /\ ret.kind = "return"
    /\ \E kind \in {Str("audio"), Str("video")} :
          /\ args' = MkObj([kind |-> kind, params |-> Get(args, "params"),
                            caps |-> Get(args, "caps"), rtpMapping |-> ret.value])
          /\ ret' = getConsumableRtpParameters(kind, Get(args, "params"),
                                               Get(args, "caps"), ret.value)
    /\ args0' = args'
    /\ pc' = "getConsumableRtpParameters"
    /\ UNCHANGED <<supportedRtpCapabilities, DynamicPayloadTypes, draws>>

NextProducer == GetProducerRtpParametersMapping \/ GetConsumableRtpParameters
SpecProducer == InitProducer /\ [][NextProducer]_vars

---------------------------------------------------------------------------
(* Consumers *)

\* k simulcast encodings of a producer, those from the given one on with
\* the scalabilityMode, the odd ones with a maxBitrate
SimulcastEncodings(k, mode, first) ==
    [i \in 1..k |->
        MkObj([rid |-> Str("r"), ssrc |-> Num(1111 * i),
               scalabilityMode |-> IF i >= first THEN mode ELSE Absent,
               rtx |-> MkObj([ssrc |-> Num(2222 * i)]),
               maxBitrate |-> IF i % 2 = 1 THEN Num(100000 * i) ELSE Absent])]

\* the parameters of the producers that are consumed: up to MaxEncodings
\* encodings, with a scalabilityMode from the first or the second on, or
\* with none
ConsumedProducerParameters ==
    {MkObj([codecs |-> Arr(q), encodings |-> Arr(e),
            rtcp |-> MkObj([cname |-> Str("c")])]) :
        q \in FullProducerCodecs,
        e \in {SimulcastEncodings(k, mode, first) :
                  k \in 0..MaxEncodings, mode \in {Str("L1T3"), Str("L3T2")},
                  first \in {1, 2}}
              \cup {SimulcastEncodings(k, Absent, 1) : k \in 1..MaxEncodings}}

\* the codecs of the capabilities of the remote endpoints
RemoteCodecs ==
    [opus |-> MkObj([mimeType |-> Str("audio/opus"), clockRate |-> Num(48000),
                     channels |-> Num(2),
                     rtcpFeedback |-> Arr(<<MkObj([type |-> Str("nack")]),
                                            MkObj([type |-> Str("transport-cc")])>>)]),
     vp8 |-> MkObj([mimeType |-> Str("video/VP8"), clockRate |-> Num(90000),
                    rtcpFeedback |-> Arr(<<MkObj([type |-> Str("nack")]),
                                           Fb("nack", "pli"),
                                           MkObj([type |-> Str("goog-remb")]),
                                           MkObj([type |-> Str("transport-cc")])>>)]),
     h264 |-> MkObj([mimeType |-> Str("video/H264"), clockRate |-> Num(90000),
                     parameters |-> Obj(("packetization-mode" :> Num(1))
                                        @@ ("profile-level-id" :> Str("42e01f"))),
                     rtcpFeedback |-> Arr(<<Fb("nack", "pli"),
                                            MkObj([type |-> Str("goog-remb")])>>)]),
     rtx |-> MkObj([mimeType |-> Str("video/rtx"), clockRate |-> Num(90000),
                    rtcpFeedback |-> Arr(<<>>)])]

\* the header extensions of the remote endpoints: all those of the routers,
\* those without transport-cc, and none
RemoteHeaderExtensions ==
    {<<MkObj([kind |-> Str("video"), uri |-> Str("urn:ietf:params:rtp-hdrext:sdes:mid"),
              preferredId |-> Num(1)]),
       MkObj([kind |-> Str("video"),
              uri |-> Str("http://www.webrtc.org/experiments/rtp-hdrext/abs-send-time"),
              preferredId |-> Num(4)]),
       MkObj([kind |-> Str("video"),
              uri |-> Str("http://www.ietf.org/id/draft-holmer-rmcat-transport-wide-cc-extensions-01"),
              preferredId |-> Num(5)])>>,
     <<MkObj([kind |-> Str("video"),
              uri |-> Str("http://www.webrtc.org/experiments/rtp-hdrext/abs-send-time"),
              preferredId |-> Num(4)]),
       MkObj([kind |-> Str("video"),
              uri |-> Str("http://www.ietf.org/id/draft-holmer-rmcat-transport-wide-cc-extensions-01"),
              preferredId |-> Num(6)])>>,
     <<>>}

\* the capabilities of the remote endpoints
RemoteCapabilities ==
    {MkObj([codecs |-> Arr(<<RemoteCodecs.opus, RemoteCodecs.vp8, RemoteCodecs.rtx,
                             RemoteCodecs.h264>>),
            headerExtensions |-> Arr(e)]) : e \in RemoteHeaderExtensions}
    \cup {MkObj([codecs |-> Arr(q), headerExtensions |-> Arr(<<>>)]) :
            q \in {<<RemoteCodecs.opus, RemoteCodecs.rtx>>,
                   <<RemoteCodecs.vp8, RemoteCodecs.rtx>>, <<RemoteCodecs.rtx>>,
                   <<RemoteCodecs.vp8>>, <<>>,
                   <<RemoteCodecs.vp8, MkObj([clockRate |-> Num(90000)])>>}}

\* the state a call of getConsumableRtpParameters(kind, params, caps,
\* rtpMapping) leaves, m being what getProducerRtpParametersMapping gave for
\* params and caps
AfterConsumableCall(kind, caps, m) ==
    /\ m.ret.kind = "return"
    /\ pc = "getConsumableRtpParameters"
    /\ args = MkObj([kind |-> kind, params |-> m.params, caps |-> caps,
                     rtpMapping |-> m.ret.value])
    /\ args0 = args
    /\ ret = getConsumableRtpParameters(kind, m.params, caps, m.ret.value)

\* the state after a router was generated, r being the result of
\* generateRouterRtpCapabilities, and a producer of the router was mapped
AfterProducerCalls(kind, params, r) ==
    /\ r.ret.kind = "return"
    /\ supportedRtpCapabilities = r.supported
    /\ DynamicPayloadTypes = r.pool
    /\ draws = r.draws
    /\ AfterConsumableCall(kind, r.ret.value,
           getProducerRtpParametersMapping(params, r.ret.value, randomIntMin))

\* the consumable parameters of a producer have been returned
InitConsumer ==
    /\ \E table \in {SupportedTable(Absent, Absent), SupportedTable(Absent, Num(100))},
          q \in ProducerRouterRequests,
          params \in ConsumedProducerParameters, kind \in {Str("audio"), Str("video")} :
          AfterProducerCalls(kind, params,
              generateRouterRtpCapabilities(Arr(q), table, DynamicPayloadTypesDeclared))
    /\ ret.kind = "return"

\* consumableParams with only its RTX codecs
onlyRtxCodecs(consumableParams) ==
    Set(consumableParams, "codecs",
        Arr(Filter(Get(consumableParams, "codecs").v,
                   {i \in DOMAIN Get(consumableParams, "codecs").v :
                       isRtxCodec(Get(consumableParams, "codecs").v[i])})))

\* the frame a call of canConsume(consumableParams, caps) leaves, r being
\* its result
CanConsumeFrame(consumableParams, caps, r) ==
    /\ args' = MkObj([consumableParams |-> consumableParams, caps |-> r.caps])
    /\ args0' = MkObj([consumableParams |-> consumableParams, caps |-> caps])
    /\ ret' = r.ret

\* a call of canConsume with the consumable parameters returned, or with
\* those parameters and only their RTX codecs
CanConsume ==
    /\ pc = "getConsumableRtpParameters"
    /\ ret.kind = "return"
    /\ \E caps \in RemoteCapabilities :
          \/ CanConsumeFrame(ret.value, caps, canConsume(ret.value, caps))
          \/ CanConsumeFrame(onlyRtxCodecs(ret.value), caps,
                             canConsume(onlyRtxCodecs(ret.value), caps))
    /\ pc' = "canConsume"
    /\ UNCHANGED <<supportedRtpCapabilities, DynamicPayloadTypes, draws>>

\* the values of pipe and enableRtx and of the calls of generateRandomNumber
ConsumerOptions ==
    {[pipe |-> FALSE, enableRtx |-> e, random |-> n, random2 |-> n] :
        e \in BOOLEAN, n \in generateRandomNumber}
    \cup {[pipe |-> TRUE, enableRtx |-> e, random |-> n, random2 |-> m] :
            e \in BOOLEAN, n \in generateRandomNumber, m \in generateRandomNumber}

\* the frame a call of getConsumerRtpParameters leaves, r being its result
ConsumerFrame(consumable, remote, opt, r) ==
    /\ args' = MkObj([consumableRtpParameters |-> r.consumableRtpParameters,
                      remoteRtpCapabilities |-> r.remoteRtpCapabilities,
                      pipe |-> Bool(opt.pipe), enableRtx |-> Bool(opt.enableRtx)])
    /\ args0' = MkObj([consumableRtpParameters |-> consumable,
                       remoteRtpCapabilities |-> remote,
                       pipe |-> Bool(opt.pipe), enableRtx |-> Bool(opt.enableRtx)])
    /\ ret' = r.ret

\* a call of getConsumerRtpParameters with the consumable parameters returned
GetConsumerRtpParameters ==
    /\ pc = "getConsumableRtpParameters"
    /\ ret.kind = "return"
    /\ \E remote \in RemoteCapabilities, opt \in ConsumerOptions :
          ConsumerFrame(ret.value, remote, opt,
                        getConsumerRtpParameters(ret.value, remote, opt))
    /\ pc' = "getConsumerRtpParameters"
    /\ UNCHANGED <<supportedRtpCapabilities, DynamicPayloadTypes, draws>>

\* a call of getPipeConsumerRtpParameters with the consumable parameters
\* returned
GetPipeConsumerRtpParameters ==
    /\ pc = "getConsumableRtpParameters"
    /\ ret.kind = "return"
    /\ \E opt \in ConsumerOptions :
          /\ opt.pipe
          /\ args' = MkObj([consumableRtpParameters |->
                                getPipeConsumerRtpParameters(ret.value, opt)
                                    .consumableRtpParameters,
                            enableRtx |-> Bool(opt.enableRtx)])
          /\ args0' = MkObj([consumableRtpParameters |-> ret.value,
                             enableRtx |-> Bool(opt.enableRtx)])
          /\ ret' = getPipeConsumerRtpParameters(ret.value, opt).ret
    /\ pc' = "getPipeConsumerRtpParameters"
    /\ UNCHANGED <<supportedRtpCapabilities, DynamicPayloadTypes, draws>>

NextConsumer ==
    CanConsume \/ GetConsumerRtpParameters \/ GetPipeConsumerRtpParameters
SpecConsumer == InitConsumer /\ [][NextConsumer]_vars

\* one more Consumer or pipe Consumer is derived from the consumable
\* parameters returned, as the Consumers derived before have left them; the
\* remote capabilities hold every codec, none, or a codec with no mimeType,
\* and the random values are the least ones
DeriveConsumer ==
    /\ \/ pc = "getConsumableRtpParameters" /\ ret.kind = "return"
       \/ pc \in {"getConsumerRtpParameters", "getPipeConsumerRtpParameters"}
    /\ LET consumable == IF pc = "getConsumableRtpParameters" THEN ret.value
                          ELSE Get(args, "consumableRtpParameters")
       IN  \E opt \in {o \in ConsumerOptions :
                           o.random = randomIntMin /\ o.random2 = randomIntMin} :
               \/ /\ \E remote \in {c \in RemoteCapabilities :
                                        \/ Len(Get(c, "codecs").v) \in {0, 4}
                                        \/ \E j \in DOMAIN Get(c, "codecs").v :
                                              Get(Get(c, "codecs").v[j], "mimeType")
                                                  = Undefined} :
                         ConsumerFrame(consumable, remote, opt,
                                       getConsumerRtpParameters(consumable, remote, opt))
                  /\ pc' = "getConsumerRtpParameters"
               \/ /\ opt.pipe
                  /\ args' = MkObj([consumableRtpParameters |->
                                        getPipeConsumerRtpParameters(consumable, opt)
                                            .consumableRtpParameters,
                                    enableRtx |-> Bool(opt.enableRtx)])
                  /\ args0' = MkObj([consumableRtpParameters |-> consumable,
                                     enableRtx |-> Bool(opt.enableRtx)])
                  /\ ret' = getPipeConsumerRtpParameters(consumable, opt).ret
                  /\ pc' = "getPipeConsumerRtpParameters"
    /\ UNCHANGED <<supportedRtpCapabilities, DynamicPayloadTypes, draws>>

SpecDerive == InitConsumer /\ [][DeriveConsumer]_vars

---------------------------------------------------------------------------
(* Claims *)

\* C4: validateRtpCapabilities is idempotent: a second call on capabilities
\* that a first call accepted and normalised succeeds too and leaves every
\* field of them as the first call left it.
C4_ValidateIdempotent ==
    pc = "validateRtpCapabilities again"
        => /\ ret.kind = "return"
           /\ Get(args, "caps") = Get(args0, "caps")

\* a second call has run on capabilities whose codec and header extension
\* the first call had to fill with defaults
C4_Witness ==
    /\ pc = "validateRtpCapabilities again"
    /\ ret.kind = "return"
    /\ \E c \in RawCodecs, e \in RawHeaderExtensions :
          /\ "channels" \notin DOMAIN c.v
          /\ "direction" \notin DOMAIN e.v
          /\ \/ Get(args, "caps") = validateRtpCapabilities(MkObj([codecs |-> Arr(<<c>>)])).obj
             \/ Get(args, "caps") = validateRtpCapabilities(MkObj([headerExtensions |-> Arr(<<e>>)])).obj


\* C5: matchCodecs(a, a, { strict: false }) returns true for every codec a
\* that validateRtpCodecCapability accepted.
C5_MatchReflexive ==
    (pc = "matchCodecs" /\ Get(args, "same") = Bool(TRUE) /\ Get(args, "strict") = Bool(FALSE))
        => ret.value = Bool(TRUE)

\* C5 for the codecs that hold no NaN: matchCodecs(a, a, { strict: false })
\* returns true when the clock rate, the channels and the parameters of a
\* are not NaN.
C5_MatchReflexiveNoNaN ==
    (/\ pc = "matchCodecs"
     /\ Get(args, "same") = Bool(TRUE)
     /\ Get(args, "strict") = Bool(FALSE)
     /\ Get(args0.v["aCodec"], "clockRate") # NaN
     /\ Get(args0.v["aCodec"], "channels") # NaN
     /\ \A k \in DOMAIN Get(args0.v["aCodec"], "parameters").v :
            Get(args0.v["aCodec"], "parameters").v[k] # NaN)
        => ret.value = Bool(TRUE)


\* the codecs of the capabilities generateRouterRtpCapabilities returned
RouterCodecs == Get(ret.value, "codecs").v

RouterReturned == pc = "generateRouterRtpCapabilities" /\ ret.kind = "return"

\* the payload types of the codecs are pairwise distinct
DistinctPayloadTypes(codecs) ==
    \A i, j \in 1..Len(codecs) :
        i < j => Get(codecs[i], "preferredPayloadType") # Get(codecs[j], "preferredPayloadType")

\* every RTX codec follows a video codec that is no RTX codec, and its apt
\* is the payload type of that codec
RtxFollowsItsCodec(codecs) ==
    \A i \in 1..Len(codecs) :
        isRtxCodec(codecs[i])
            => /\ i > 1
               /\ ~isRtxCodec(codecs[i - 1])
               /\ Get(codecs[i - 1], "kind") = Str("video")
               /\ Get(Get(codecs[i], "parameters"), "apt")
                      = Get(codecs[i - 1], "preferredPayloadType")

\* C1: whenever generateRouterRtpCapabilities returns, whatever the request
\* and the supported table, the payload types of all codecs of the result,
\* RTX codecs included, are pairwise distinct, and the apt of every RTX codec
\* is the payload type of the video codec emitted just before it.
C1_DistinctPayloadTypes ==
    RouterReturned => DistinctPayloadTypes(RouterCodecs) /\ RtxFollowsItsCodec(RouterCodecs)

\* the table sets no payload type that is a value of the pool
TableIsStatic ==
    \A i \in 1..Len(Get(supportedRtpCapabilities, "codecs").v) :
        LET pt == Get(Get(supportedRtpCapabilities, "codecs").v[i], "preferredPayloadType")
        IN  pt.t = "number" => \A j \in 1..Len(DynamicPayloadTypes) : DynamicPayloadTypes[j] # pt.v

\* C1 for the tables whose payload types are no values of the pool: the
\* payload types of the result are pairwise distinct and every RTX codec
\* points to the codec before it.
C1_DistinctWhenTableStatic ==
    (RouterReturned /\ TableIsStatic)
        => DistinctPayloadTypes(RouterCodecs) /\ RtxFollowsItsCodec(RouterCodecs)

\* the mime types, in lower case, that a request gives rise to: those of the
\* requested codecs in order, each video one followed by video/rtx
RECURSIVE ExpectedMimeTypes(_)
ExpectedMimeTypes(mediaCodecs) ==
    IF mediaCodecs = <<>> THEN <<>>
    ELSE LET m == ToLowerCase(Get(Head(mediaCodecs), "mimeType").v) IN
         (IF SplitMime(m)[1] = "video" THEN <<m, "video/rtx">> ELSE <<m>>)
             \o ExpectedMimeTypes(Tail(mediaCodecs))

\* no requested codec carries a payload type, and no codec of the result
\* owes its payload type to the table
NoPreferredPayloadType ==
    /\ \A i \in 1..Len(Get(args0, "mediaCodecs").v) :
          "preferredPayloadType" \notin DOMAIN Get(args0, "mediaCodecs").v[i].v
    /\ \A i \in 1..Len(Get(supportedRtpCapabilities, "codecs").v) :
          LET s == Get(supportedRtpCapabilities, "codecs").v[i] IN
          "preferredPayloadType" \in DOMAIN s.v
              => \A j \in 1..Len(Get(args0, "mediaCodecs").v) :
                    ToLowerCase(Get(Get(args0, "mediaCodecs").v[j], "mimeType").v)
                        # ToLowerCase(Get(s, "mimeType").v)

\* C2: when no requested codec and no matched supported codec carries a
\* payload type, the result holds the requested codecs in order, each video
\* codec followed by its RTX codec (whose apt is the payload type of that
\* codec) and audio codecs by none, and the k-th codec of the result has
\* the k-th value of the pool 100..127, 96..99.
C2_PoolOrder ==
    (RouterReturned /\ NoPreferredPayloadType)
        => /\ [k \in 1..Len(RouterCodecs) |-> ToLowerCase(Get(RouterCodecs[k], "mimeType").v)]
                  = ExpectedMimeTypes(Get(args0, "mediaCodecs").v)
           /\ \A k \in 1..Len(RouterCodecs) :
                 Get(RouterCodecs[k], "preferredPayloadType") = Num(DynamicPayloadTypesDeclared[k])
           /\ RtxFollowsItsCodec(RouterCodecs)

\* a request of audio/opus, video/vp8 with no payload types has returned
\* opus at 100, vp8 at 101 and video/rtx at 102 with apt 101
C2_Witness ==
    /\ RouterReturned
    /\ NoPreferredPayloadType
    /\ Len(RouterCodecs) = 3
    /\ Get(RouterCodecs[1], "mimeType") = Str("audio/opus")
    /\ Get(RouterCodecs[1], "preferredPayloadType") = Num(100)
    /\ Get(RouterCodecs[2], "preferredPayloadType") = Num(101)
    /\ Get(RouterCodecs[3], "mimeType") = Str("video/rtx")
    /\ Get(RouterCodecs[3], "preferredPayloadType") = Num(102)
    /\ Get(Get(RouterCodecs[3], "parameters"), "apt") = Num(101)

\* C10: when a payload type has to be taken from the pool (for a media codec
\* with no payload type of its own, or for the RTX codec of a video codec)
\* and the pool of this call is empty, the call throws the Error 'cannot
\* allocate more dynamic codec payload types' and returns nothing; and no
\* call returns a codec whose preferredPayloadType is not a number.
C10_PoolExhaustion ==
    pc = "generateRouterRtpCapabilities"
        => /\ (\E k \in 1..Len(draws) : draws[k].left = 0)
                  => (ret.kind = "throw" /\ ret.error = "Error" /\ ret.value = Undefined)
           /\ ret.kind = "return"
                  => \A k \in 1..Len(RouterCodecs) :
                        TypeOf(Get(RouterCodecs[k], "preferredPayloadType")) = "number"

\* a call has thrown the Error at the RTX codec of a video codec that took
\* the last value of the pool
C10_Witness ==
    /\ pc = "generateRouterRtpCapabilities"
    /\ ret.kind = "throw" /\ ret.error = "Error"
    /\ Len(draws) = 33
    /\ draws[32] = [for |-> "media", left |-> 1]
    /\ draws[33] = [for |-> "rtx", left |-> 0]

\* what a call of getProducerRtpParametersMapping returned, and the
\* encodings of the parameters it was called with
MappingReturned == pc = "getProducerRtpParametersMapping" /\ ret.kind = "return"
MappedEncodings == Get(ret.value, "encodings").v
ProducerEncodingsGiven == Get(Get(args0, "params"), "encodings").v
MappedSsrc(i) == Get(MappedEncodings[i], "mappedSsrc").v

\* C8 as stated: getProducerRtpParametersMapping returns one encoding entry
\* per producer encoding, and every mappedSsrc lies in
\* [100_000_000, 999_999_999]
C8_MappedSsrcInRange ==
    MappingReturned
        => /\ Len(MappedEncodings) = Len(ProducerEncodingsGiven)
           /\ \A i \in DOMAIN MappedEncodings :
                 MappedSsrc(i) >= 100000000 /\ MappedSsrc(i) <= 999999999

\* C8, amended: getProducerRtpParametersMapping returns one encoding entry
\* per producer encoding; the first mappedSsrc lies in
\* [100_000_000, 999_999_998] (the upper bound given to randomInt is not
\* returned) and the i-th is the first plus i - 1, so that with n encodings
\* every mappedSsrc lies in [100_000_000, 999_999_997 + n]
C8_MappedSsrcConsecutive ==
    MappingReturned
        => /\ Len(MappedEncodings) = Len(ProducerEncodingsGiven)
           /\ \A i \in DOMAIN MappedEncodings :
                 /\ MappedSsrc(i) = MappedSsrc(1) + (i - 1)
                 /\ MappedSsrc(1) >= 100000000 /\ MappedSsrc(1) <= 999999998
                 /\ MappedSsrc(i) >= 100000000
                 /\ MappedSsrc(i) <= 999999997 + Len(MappedEncodings)

\* three encodings mapped, the last to a mappedSsrc of ten digits
C8_Witness ==
    /\ MappingReturned
    /\ Len(MappedEncodings) = 3
    /\ MappedSsrc(3) = 1000000000

\* what a call of getConsumableRtpParameters returned, and the capabilities
\* of the router it was called with
ConsumableReturned == pc = "getConsumableRtpParameters" /\ ret.kind = "return"
ConsumableCodecs == Get(ret.value, "codecs").v
RouterCapCodecs == Get(Get(args, "caps"), "codecs").v

\* C3: every payloadType of the codecs that getConsumableRtpParameters
\* returns, called with the mapping getProducerRtpParametersMapping returned
\* for the same parameters and router capabilities, is the
\* preferredPayloadType of a codec of those capabilities, and every RTX
\* codec returned has for apt the payloadType of the media codec returned
\* just before it
C3_ConsumablePayloadTypes ==
    ConsumableReturned
        => \A k \in DOMAIN ConsumableCodecs :
              /\ \E j \in DOMAIN RouterCapCodecs :
                    Get(ConsumableCodecs[k], "payloadType")
                        = Get(RouterCapCodecs[j], "preferredPayloadType")
              /\ TypeOf(Get(ConsumableCodecs[k], "payloadType")) = "number"
              /\ isRtxCodec(ConsumableCodecs[k])
                    => /\ k > 1
                       /\ ~isRtxCodec(ConsumableCodecs[k - 1])
                       /\ Get(Get(ConsumableCodecs[k], "parameters"), "apt")
                              = Get(ConsumableCodecs[k - 1], "payloadType")

\* a producer of H264 and VP8, each with its RTX codec, none at the payload
\* type the router gave the codec: four consumable codecs are returned
C3_Witness ==
    /\ ConsumableReturned
    /\ Len(ConsumableCodecs) = 4
    /\ isRtxCodec(ConsumableCodecs[2]) /\ isRtxCodec(ConsumableCodecs[4])
    /\ \A k \in DOMAIN ConsumableCodecs :
          \A j \in DOMAIN Get(Get(args, "params"), "codecs").v :
              Get(ConsumableCodecs[k], "payloadType")
                  # Get(Get(Get(args, "params"), "codecs").v[j], "payloadType")

CanConsumeReturned == pc = "canConsume" /\ ret.kind = "return"
ConsumableParamsCodecs == Get(Get(args0, "consumableParams"), "codecs").v
ValidatedCapsCodecs == Get(Get(args, "caps"), "codecs").v

\* the i-th consumable codec strict-matches some codec of caps
StrictMatchesCaps(i) ==
    \E j \in DOMAIN ValidatedCapsCodecs :
        matchCodecs(ValidatedCapsCodecs[j], ConsumableParamsCodecs[i], TRUE, FALSE).match

\* C6: canConsume(consumableParams, caps) returns true exactly when some
\* consumable codec strict-matches a codec of caps and the first consumable
\* codec that does is not an RTX codec; it returns false when the consumable
\* codecs are RTX codecs only
C6_CanConsume ==
    CanConsumeReturned
        => /\ ret.value \in {Bool(TRUE), Bool(FALSE)}
           /\ ret.value = Bool(TRUE)
                 <=> \E i \in DOMAIN ConsumableParamsCodecs :
                        /\ StrictMatchesCaps(i)
                        /\ ~isRtxCodec(ConsumableParamsCodecs[i])
                        /\ \A k \in 1..(i - 1) : ~StrictMatchesCaps(k)
           /\ (\A i \in DOMAIN ConsumableParamsCodecs :
                  isRtxCodec(ConsumableParamsCodecs[i]))
                 => ret.value = Bool(FALSE)

\* canConsume returned false for one RTX codec that a codec of caps matches
C6_Witness ==
    /\ CanConsumeReturned
    /\ Len(ConsumableParamsCodecs) = 1
    /\ isRtxCodec(ConsumableParamsCodecs[1])
    /\ StrictMatchesCaps(1)
    /\ ret.value = Bool(FALSE)

ConsumerReturned == pc = "getConsumerRtpParameters" /\ ret.kind = "return"
ConsumerCodecs == Get(ret.value, "codecs").v
ConsumerEncodings == Get(ret.value, "encodings").v
ConsumableGiven == Get(args0, "consumableRtpParameters")
ConsumableEncodingsGiven == Get(ConsumableGiven, "encodings").v

\* the temporal layers a scalability mode declares
DeclaredTemporalLayers(mode) ==
    CASE mode = Str("L1T1") -> 1
      [] mode = Str("L1T3") -> 3
      [] mode = Str("L2T3") -> 3
      [] mode = Str("L3T2") -> 2

\* the consumable encodings that have a scalability mode
WithScalabilityMode ==
    {i \in DOMAIN ConsumableEncodingsGiven :
        "scalabilityMode" \in DOMAIN ConsumableEncodingsGiven[i].v}

\* C7: getConsumerRtpParameters with pipe = false returns exactly one
\* encoding; with N > 1 consumable encodings whose scalability mode (that of
\* the first encoding that has one) declares t temporal layers, the
\* scalabilityMode of that encoding is L<N>T<t>; with N = 1 the
\* scalabilityMode of the consumable encoding is carried over unchanged
C7_SingleEncoding ==
    (ConsumerReturned /\ Get(args0, "pipe") = Bool(FALSE))
        => /\ Len(ConsumerEncodings) = 1
           /\ (Len(ConsumableEncodingsGiven) > 1 /\ WithScalabilityMode # {})
                 => Get(ConsumerEncodings[1], "scalabilityMode")
                        = Str("L" \o ToString(Len(ConsumableEncodingsGiven)) \o "T"
                              \o ToString(DeclaredTemporalLayers(
                                     Get(ConsumableEncodingsGiven[FirstIndex(WithScalabilityMode)],
                                         "scalabilityMode"))))
           /\ Len(ConsumableEncodingsGiven) = 1
                 => /\ Get(ConsumerEncodings[1], "scalabilityMode")
                          = Get(ConsumableEncodingsGiven[1], "scalabilityMode")
                    /\ "scalabilityMode" \in DOMAIN ConsumerEncodings[1].v
                          <=> WithScalabilityMode = {1}

\* two simulcast encodings with L1T3 gave one encoding with L2T3
C7_Witness ==
    /\ ConsumerReturned
    /\ Get(args0, "pipe") = Bool(FALSE)
    /\ Len(ConsumableEncodingsGiven) = 2
    /\ \A i \in {1, 2} : Get(ConsumableEncodingsGiven[i], "scalabilityMode") = Str("L1T3")
    /\ Len(ConsumerEncodings) = 1
    /\ Get(ConsumerEncodings[1], "scalabilityMode") = Str("L2T3")

\* the codecs left after filtering and RTX sanitization in the call made
SanitizedCodecs ==
    consumerCodecsOf(
        consumerFilterLoop(<<>>, 1, Get(ConsumableGiven, "codecs").v,
                           Get(Get(args, "remoteRtpCapabilities"), "codecs").v,
                           Get(args0, "enableRtx").v)).codecs

ConsumerThrewUnsupported ==
    /\ pc = "getConsumerRtpParameters"
    /\ ret.kind = "throw"
    /\ ret.error = "UnsupportedError: no compatible media codecs"

\* every RTX codec of the result has for apt the payloadType of a media
\* codec of the result
RtxHasMediaCodec ==
    \A k \in DOMAIN ConsumerCodecs :
        isRtxCodec(ConsumerCodecs[k])
            => \E j \in DOMAIN ConsumerCodecs :
                  /\ ~isRtxCodec(ConsumerCodecs[j])
                  /\ StrictEq(Get(ConsumerCodecs[j], "payloadType"),
                              Get(Get(ConsumerCodecs[k], "parameters"), "apt"))

\* C9: whenever getConsumerRtpParameters returns, the first codec of the
\* result is not an RTX codec and every RTX codec of the result has for apt
\* the payloadType of a media codec of the result; it fails with the
\* Unsupported error exactly when, after filtering and RTX sanitization, no
\* codec remains or the first remaining codec is RTX
C9_RtxHasMediaCodec ==
    /\ ConsumerReturned
          => /\ ~isRtxCodec(ConsumerCodecs[1])
             /\ RtxHasMediaCodec
    /\ (ConsumerReturned \/ ConsumerThrewUnsupported)
          => (ConsumerThrewUnsupported <=> noCompatibleMediaCodecs(SanitizedCodecs))

\* the payload types of the consumable codecs are pairwise different
ConsumableDistinct ==
    \A i, j \in DOMAIN Get(ConsumableGiven, "codecs").v :
        i # j => Get(Get(ConsumableGiven, "codecs").v[i], "payloadType")
                    # Get(Get(ConsumableGiven, "codecs").v[j], "payloadType")

\* what C9 states holds of the calls whose consumable codecs have pairwise
\* different payload types
C9_HoldsWhenDistinct ==
    (ConsumerReturned /\ ConsumableDistinct)
        => /\ ~isRtxCodec(ConsumerCodecs[1])
           /\ RtxHasMediaCodec

MappingCalled == pc = "getProducerRtpParametersMapping"
ProducerCodecsGiven == Get(Get(args0, "params"), "codecs").v
MappingCapCodecs == Get(Get(args0, "caps"), "codecs").v
MappedCodecs == Get(ret.value, "codecs").v

\* the index of the first capability codec that the i-th producer codec
\* strict-matches, or 0
MatchedCapCodec(i) ==
    FirstIndex({j \in DOMAIN MappingCapCodecs :
                   matchCodecs(ProducerCodecsGiven[i], MappingCapCodecs[j], TRUE, FALSE).match})

\* the index of the first producer codec whose payloadType is the apt of the
\* i-th one, or 0
AssociatedCodec(i) ==
    FirstIndex({k \in DOMAIN ProducerCodecsGiven :
                   StrictEq(Get(ProducerCodecsGiven[k], "payloadType"),
                            Get(Get(ProducerCodecsGiven[i], "parameters"), "apt"))})

\* some media codec of the producer strict-matches no capability codec
UnmatchedMediaCodec ==
    \E i \in DOMAIN ProducerCodecsGiven :
        ~isRtxCodec(ProducerCodecsGiven[i]) /\ MatchedCapCodec(i) = 0

\* the capabilities hold no RTX codec whose apt is the payload type of the
\* capability codec matched for the media codec the i-th codec is associated
\* with
NoCapRtxCodec(i) ==
    /\ AssociatedCodec(i) > 0
    /\ ~isRtxCodec(ProducerCodecsGiven[AssociatedCodec(i)])
    /\ MatchedCapCodec(AssociatedCodec(i)) > 0
    /\ ~\E j \in DOMAIN MappingCapCodecs :
           /\ isRtxCodec(MappingCapCodecs[j])
           /\ StrictEq(Get(Get(MappingCapCodecs[j], "parameters"), "apt"),
                       Get(MappingCapCodecs[MatchedCapCodec(AssociatedCodec(i))],
                           "preferredPayloadType"))

\* the first RTX codec of the producer with no associated codec or with no
\* RTX codec in the capabilities, or 0
FirstFailingRtxCodec ==
    FirstIndex({i \in DOMAIN ProducerCodecsGiven :
                   /\ isRtxCodec(ProducerCodecsGiven[i])
                   /\ AssociatedCodec(i) = 0 \/ NoCapRtxCodec(i)})

\* the payload types of the producer codecs at the indexes of S, in order
PayloadTypesAt(S) ==
    [k \in DOMAIN Filter(ProducerCodecsGiven, S) |->
        Get(Filter(ProducerCodecsGiven, S)[k], "payloadType")]

\* the outcome C11 states for a call whose params.encodings is a list
MappingOutcomeStated ==
    IF UnmatchedMediaCodec
    THEN ret.kind = "throw" /\ ret.error = "UnsupportedError"
    ELSE IF FirstFailingRtxCodec > 0
    THEN /\ ret.kind = "throw"
         /\ ret.error = IF AssociatedCodec(FirstFailingRtxCodec) = 0
                        THEN "TypeError" ELSE "UnsupportedError"
    ELSE /\ ret.kind = "return"
         /\ [k \in DOMAIN MappedCodecs |-> Get(MappedCodecs[k], "payloadType")]
               = PayloadTypesAt({i \in DOMAIN ProducerCodecsGiven :
                                    ~isRtxCodec(ProducerCodecsGiven[i])})
                 \o PayloadTypesAt({i \in DOMAIN ProducerCodecsGiven :
                                       isRtxCodec(ProducerCodecsGiven[i])})

\* C11: getProducerRtpParametersMapping fails with the Unsupported error when
\* a media codec of the producer strict-matches no capability codec, with a
\* TypeError when the apt of an RTX codec is the payloadType of no producer
\* codec, with the Unsupported error when the capabilities hold no RTX codec
\* for the capability codec matched for the associated media codec, and
\* returns otherwise a codecs mapping with one entry per producer codec, the
\* media entries before the RTX entries
C11_MappingErrors ==
    (MappingCalled /\ IsArray(Get(Get(args0, "params"), "encodings")))
        => MappingOutcomeStated

\* the codec found for the apt of every RTX codec of the producer is a media
\* codec
AptOfMediaCodec ==
    \A i \in DOMAIN ProducerCodecsGiven :
        (isRtxCodec(ProducerCodecsGiven[i]) /\ AssociatedCodec(i) > 0)
            => ~isRtxCodec(ProducerCodecsGiven[AssociatedCodec(i)])

\* what C11 states holds of the calls in which no apt is the payloadType of
\* an RTX codec
C11_HoldsWhenAptOfMediaCodec ==
    (MappingCalled /\ IsArray(Get(Get(args0, "params"), "encodings")) /\ AptOfMediaCodec)
        => MappingOutcomeStated

ProducerCodecsPassed == Get(Get(args, "params"), "codecs").v
MappingCodecsPassed == Get(Get(args, "rtpMapping"), "codecs").v

\* the media codecs of the producer and of the consumable parameters, in
\* their order
ProducerMediaCodecs ==
    Filter(ProducerCodecsPassed,
           {i \in DOMAIN ProducerCodecsPassed : ~isRtxCodec(ProducerCodecsPassed[i])})
ConsumableMediaCodecs ==
    Filter(ConsumableCodecs,
           {i \in DOMAIN ConsumableCodecs : ~isRtxCodec(ConsumableCodecs[i])})

\* the payload type the mapping gives the k-th media codec of the producer
MappedPayloadTypeOf(k) ==
    Get(Find(MappingCodecsPassed,
             {e \in DOMAIN MappingCodecsPassed :
                 Get(MappingCodecsPassed[e], "payloadType")
                     = Get(ProducerMediaCodecs[k], "payloadType")}),
        "mappedPayloadType")

\* the capability codec of the router at that payload type
CapCodecMappedTo(k) ==
    Find(RouterCapCodecs,
         {j \in DOMAIN RouterCapCodecs :
             Get(RouterCapCodecs[j], "preferredPayloadType") = MappedPayloadTypeOf(k)})

\* C12: the k-th media codec that getConsumableRtpParameters returns has the
\* mimeType, clockRate, channels and rtcpFeedback of the capability codec of
\* the router whose preferredPayloadType is the mapped payload type of the
\* k-th media codec of the producer, and the parameters of that producer
\* codec; there are as many of them as media codecs of the producer
C12_ConsumableMediaCodecs ==
    ConsumableReturned
        => /\ Len(ConsumableMediaCodecs) = Len(ProducerMediaCodecs)
           /\ \A k \in DOMAIN ConsumableMediaCodecs :
                 /\ CapCodecMappedTo(k) # Undefined
                 /\ \A f \in {"mimeType", "clockRate", "channels", "rtcpFeedback"} :
                       Get(ConsumableMediaCodecs[k], f) = Get(CapCodecMappedTo(k), f)
                 /\ Get(ConsumableMediaCodecs[k], "parameters")
                        = Get(ProducerMediaCodecs[k], "parameters")

\* a producer of two media codecs with parameters that differ from those of
\* the capability codecs they are mapped to
C12_Witness ==
    /\ ConsumableReturned
    /\ Len(ConsumableMediaCodecs) = 2
    /\ Get(ConsumableMediaCodecs[1], "mimeType") # Get(ConsumableMediaCodecs[2], "mimeType")
    /\ \E k \in DOMAIN ConsumableMediaCodecs :
          Get(ProducerMediaCodecs[k], "parameters") # Get(CapCodecMappedTo(k), "parameters")

ProducerEncodingsPassed == Get(Get(args, "params"), "encodings").v
MappingEncodingsPassed == Get(Get(args, "rtpMapping"), "encodings").v
ConsumableEncodings == Get(ret.value, "encodings").v
RemovedFromEncodings == {"rid", "rtx", "codecPayloadType"}

\* C13: getConsumableRtpParameters returns as many encodings as the producer
\* has, in the same order; the i-th has no rid, rtx or codecPayloadType, has
\* for ssrc the mappedSsrc of the i-th encoding of the mapping, and has every
\* other member of the i-th producer encoding with its value; the parameters
\* of the producer are left as they were given
C13_ConsumableEncodings ==
    ConsumableReturned
        => /\ Len(ConsumableEncodings) = Len(ProducerEncodingsPassed)
           /\ \A i \in DOMAIN ConsumableEncodings :
                 /\ DOMAIN ConsumableEncodings[i].v
                        = (DOMAIN ProducerEncodingsPassed[i].v \ RemovedFromEncodings)
                          \cup {"ssrc"}
                 /\ Get(ConsumableEncodings[i], "ssrc")
                        = Get(MappingEncodingsPassed[i], "mappedSsrc")
                 /\ \A f \in DOMAIN ConsumableEncodings[i].v \ {"ssrc"} :
                       Get(ConsumableEncodings[i], f) = Get(ProducerEncodingsPassed[i], f)
           /\ Get(args, "params") = Get(args0, "params")

\* three encodings, the first with rid, rtx, codecPayloadType and an ssrc of
\* its own, the second with no member at all
C13_Witness ==
    /\ ConsumableReturned
    /\ Len(ConsumableEncodings) = 3
    /\ RemovedFromEncodings \subseteq DOMAIN ProducerEncodingsPassed[1].v
    /\ Get(ProducerEncodingsPassed[1], "ssrc") # Get(ConsumableEncodings[1], "ssrc")
    /\ Get(ConsumableEncodings[1], "scalabilityMode") = Str("L1T3")
    /\ DOMAIN ProducerEncodingsPassed[2].v = {}

ConsumerHeaderExtensions == Get(ret.value, "headerExtensions").v
ConsumableHeaderExtensionsGiven == Get(ConsumableGiven, "headerExtensions").v

\* the header extensions returned include the uri
ConsumerHasUri(uri) ==
    \E i \in DOMAIN ConsumerHeaderExtensions :
        Get(ConsumerHeaderExtensions[i], "uri") = Str(uri)

\* some codec returned has a feedback of the type
ConsumerHasFeedback(type) ==
    \E k \in DOMAIN ConsumerCodecs :
        \E j \in DOMAIN Get(ConsumerCodecs[k], "rtcpFeedback").v :
            Get(Get(ConsumerCodecs[k], "rtcpFeedback").v[j], "type") = Str(type)

\* C14: in every result of getConsumerRtpParameters, when the header
\* extensions returned include transport-wide-cc no codec has goog-remb
\* feedback; otherwise, when they include abs-send-time no codec has
\* transport-cc feedback; otherwise no codec has either.  The header
\* extensions returned are the consumable ones whose id and uri are the
\* preferredId and uri of a header extension of the remote capabilities
C14_FeedbackReduction ==
    ConsumerReturned
        => /\ IF ConsumerHasUri("http://www.ietf.org/id/draft-holmer-rmcat-transport-wide-cc-extensions-01")
              THEN ~ConsumerHasFeedback("goog-remb")
              ELSE IF ConsumerHasUri("http://www.webrtc.org/experiments/rtp-hdrext/abs-send-time")
              THEN ~ConsumerHasFeedback("transport-cc")
              ELSE ~ConsumerHasFeedback("goog-remb") /\ ~ConsumerHasFeedback("transport-cc")
           /\ ConsumerHeaderExtensions
                  = consumerHeaderExtensions(
                        ConsumableHeaderExtensionsGiven,
                        Get(Get(args0, "remoteRtpCapabilities"), "headerExtensions").v)

\* the consumable header extensions include transport-wide-cc, the remote
\* capabilities have it at another id and have abs-send-time: goog-remb is
\* kept and transport-cc is not
C14_Witness ==
    /\ ConsumerReturned
    /\ \E i \in DOMAIN ConsumableHeaderExtensionsGiven :
          Get(ConsumableHeaderExtensionsGiven[i], "uri")
              = Str("http://www.ietf.org/id/draft-holmer-rmcat-transport-wide-cc-extensions-01")
    /\ ~ConsumerHasUri("http://www.ietf.org/id/draft-holmer-rmcat-transport-wide-cc-extensions-01")
    /\ ConsumerHasUri("http://www.webrtc.org/experiments/rtp-hdrext/abs-send-time")
    /\ ConsumerHasFeedback("goog-remb")

\* some codec returned is an RTX codec
ConsumerHasRtxCodec == \E k \in DOMAIN ConsumerCodecs : isRtxCodec(ConsumerCodecs[k])

\* the i-th encoding returned has an rtx with a number for ssrc
ConsumerEncodingHasRtx(i) ==
    /\ "rtx" \in DOMAIN ConsumerEncodings[i].v
    /\ TypeOf(Get(Get(ConsumerEncodings[i], "rtx"), "ssrc")) = "number"

\* some codec returned has a feedback of type nack with no parameter
ConsumerHasPlainNack ==
    \E k \in DOMAIN ConsumerCodecs :
        \E j \in DOMAIN Get(ConsumerCodecs[k], "rtcpFeedback").v :
            /\ Get(Get(ConsumerCodecs[k], "rtcpFeedback").v[j], "type") = Str("nack")
            /\ ~Truthy(Get(Get(ConsumerCodecs[k], "rtcpFeedback").v[j], "parameter"))

\* C15: in every result of getConsumerRtpParameters, pipe or not, every
\* encoding has an rtx ssrc exactly when some codec returned is an RTX codec;
\* with enableRtx = false no codec returned is an RTX codec, no encoding has
\* rtx and no codec has a nack feedback with an empty parameter
C15_RtxEncodings ==
    ConsumerReturned
        => /\ \A i \in DOMAIN ConsumerEncodings :
                 /\ ConsumerEncodingHasRtx(i) <=> ConsumerHasRtxCodec
                 /\ "rtx" \in DOMAIN ConsumerEncodings[i].v <=> ConsumerHasRtxCodec
           /\ Get(args0, "enableRtx") = Bool(FALSE)
                 => /\ ~ConsumerHasRtxCodec
                    /\ ~ConsumerHasPlainNack

\* a pipe Consumer of three encodings with an RTX codec, and a feedback of
\* nack with no parameter
C15_Witness ==
    /\ ConsumerReturned
    /\ Get(args0, "pipe") = Bool(TRUE)
    /\ Len(ConsumerEncodings) = 3
    /\ ConsumerHasRtxCodec
    /\ ConsumerHasPlainNack
    /\ ConsumerEncodingHasRtx(3)

PipeReturned == pc = "getPipeConsumerRtpParameters" /\ ret.kind = "return"
PipeCodecs == Get(ret.value, "codecs").v
PipeEncodings == Get(ret.value, "encodings").v
PipeHeaderExtensions == Get(ret.value, "headerExtensions").v
PipeConsumableGiven == Get(args0, "consumableRtpParameters")

\* the feedback entries of the codecs returned
PipeFeedback ==
    UNION {{Get(PipeCodecs[k], "rtcpFeedback").v[j] :
               j \in DOMAIN Get(PipeCodecs[k], "rtcpFeedback").v} :
           k \in DOMAIN PipeCodecs}

\* C16: the header extensions getPipeConsumerRtpParameters returns hold none
\* of the uris of transport MID, abs-send-time and transport-wide-cc; every
\* feedback of a codec returned is nack with pli, ccm with fir or, with
\* enableRtx only, nack with an empty parameter; with enableRtx = false no
\* codec returned is an RTX codec and no encoding has rtx; there are as many
\* encodings as consumable encodings
C16_PipeConsumer ==
    PipeReturned
        => /\ \A i \in DOMAIN PipeHeaderExtensions :
                 Get(PipeHeaderExtensions[i], "uri")
                     \notin {Str("urn:ietf:params:rtp-hdrext:sdes:mid"),
                             Str("http://www.webrtc.org/experiments/rtp-hdrext/abs-send-time"),
                             Str("http://www.ietf.org/id/draft-holmer-rmcat-transport-wide-cc-extensions-01")}
           /\ \A fb \in PipeFeedback :
                 \/ Get(fb, "type") = Str("nack") /\ Get(fb, "parameter") = Str("pli")
                 \/ Get(fb, "type") = Str("ccm") /\ Get(fb, "parameter") = Str("fir")
                 \/ /\ Get(args0, "enableRtx") = Bool(TRUE)
                    /\ Get(fb, "type") = Str("nack")
                    /\ Get(fb, "parameter") \in {Str(""), Undefined}
           /\ Get(args0, "enableRtx") = Bool(FALSE)
                 => /\ \A k \in DOMAIN PipeCodecs : ~isRtxCodec(PipeCodecs[k])
                    /\ \A i \in DOMAIN PipeEncodings : "rtx" \notin DOMAIN PipeEncodings[i].v
           /\ Len(PipeEncodings) = Len(Get(PipeConsumableGiven, "encodings").v)

\* a pipe Consumer without RTX of consumable parameters with an RTX codec,
\* header extensions of bandwidth estimation, the feedback nack and goog-remb
\* and three encodings
C16_Witness ==
    /\ PipeReturned
    /\ Get(args0, "enableRtx") = Bool(FALSE)
    /\ Len(PipeEncodings) = 3
    /\ Len(PipeCodecs) < Len(Get(PipeConsumableGiven, "codecs").v)
    /\ Len(PipeHeaderExtensions) + 3 = Len(Get(PipeConsumableGiven, "headerExtensions").v)
    /\ PipeFeedback = {Fb("nack", "pli"), Fb("ccm", "fir")}
    /\ \E k \in DOMAIN Get(PipeConsumableGiven, "codecs").v :
          Fb("nack", "") \in
              {Get(Get(PipeConsumableGiven, "codecs").v[k], "rtcpFeedback").v[j] :
                  j \in DOMAIN Get(Get(PipeConsumableGiven, "codecs").v[k], "rtcpFeedback").v}

\* the ssrc values of the encodings returned, followed by their rtx.ssrc
\* values
ReturnedSsrcs ==
    [i \in 1..(2 * Len(Get(ret.value, "encodings").v)) |->
        IF i <= Len(Get(ret.value, "encodings").v)
        THEN Get(Get(ret.value, "encodings").v[i], "ssrc")
        ELSE Get(Get(Get(ret.value, "encodings").v[i - Len(Get(ret.value, "encodings").v)],
                     "rtx"),
                 "ssrc")]

\* a pipe result with RTX and two encodings or more
PipeWithRtxReturned ==
    /\ \/ PipeReturned /\ Get(args0, "enableRtx") = Bool(TRUE)
       \/ ConsumerReturned /\ Get(args0, "pipe") = Bool(TRUE) /\ ConsumerHasRtxCodec
    /\ Len(Get(ret.value, "encodings").v) >= 2

\* C19: in a result of getPipeConsumerRtpParameters with enableRtx = true,
\* and of getConsumerRtpParameters with pipe = true when RTX is supported,
\* for two consumable encodings or more, the ssrc and rtx.ssrc values of the
\* encodings returned are pairwise distinct, whatever the two values drawn
C19_PipeSsrcsDistinct ==
    PipeWithRtxReturned
        => \A i, j \in DOMAIN ReturnedSsrcs :
              i # j => ReturnedSsrcs[i] # ReturnedSsrcs[j]

\* the ssrc values are consecutive from the first, and so are the rtx.ssrc
\* values: what the code ensures of a pipe result with RTX
C19_ConsecutiveFromTwoBases ==
    PipeWithRtxReturned
        => \A i \in DOMAIN Get(ret.value, "encodings").v :
              /\ ReturnedSsrcs[i].v = ReturnedSsrcs[1].v + (i - 1)
              /\ ReturnedSsrcs[i + Len(Get(ret.value, "encodings").v)].v
                     = ReturnedSsrcs[1 + Len(Get(ret.value, "encodings").v)].v + (i - 1)

\* canConsume returns true for the consumable parameters and the remote
\* capabilities the call of getConsumerRtpParameters was given
CanConsumeGiven ==
    canConsume(ConsumableGiven, Get(args0, "remoteRtpCapabilities")).ret
        = Return(Bool(TRUE))

\* C20: when canConsume(consumableParams, caps) returns true,
\* getConsumerRtpParameters on the same consumable parameters and
\* capabilities does not fail with the Unsupported error 'no compatible
\* media codecs', whatever enableRtx and pipe
C20_CanConsumeThenConsumer ==
    (pc = "getConsumerRtpParameters" /\ CanConsumeGiven)
        => ~ConsumerThrewUnsupported

\* canConsume returns true and the call, with RTX enabled, returns with an
\* RTX codec of the consumable parameters left out
C20_Witness ==
    /\ ConsumerReturned
    /\ CanConsumeGiven
    /\ Get(args0, "enableRtx") = Bool(TRUE)
    /\ Len(ConsumerCodecs) < Len(Get(ConsumableGiven, "codecs").v)
    /\ ~ConsumerHasRtxCodec
    /\ \E k \in DOMAIN Get(ConsumableGiven, "codecs").v :
          isRtxCodec(Get(ConsumableGiven, "codecs").v[k])

\* the call made last, repeated with the request it was given while the module
\* holds the table and the pool the calls made so far have left
RouterCallRepeated ==
    generateRouterRtpCapabilities(Get(args0, "mediaCodecs"),
                                  supportedRtpCapabilities, DynamicPayloadTypes)

\* C17: after any sequence of calls of generateRouterRtpCapabilities,
\* returned or failed, the module's pool holds its 32 values in the declared
\* order, the module's table is a declared table or that table normalised,
\* with no payload type or parameter of a call in it, and the call made last,
\* repeated with its request, returns or throws the same
C17_RouterCallsLeaveModule ==
    /\ DynamicPayloadTypes = DynamicPayloadTypesDeclared
    /\ Len(DynamicPayloadTypes) = 32
    /\ \E table \in SupportedTables :
          supportedRtpCapabilities \in {table, validateRtpCapabilities(table).obj}
    /\ pc = "generateRouterRtpCapabilities"
          => /\ RouterCallRepeated.ret = ret
             /\ RouterCallRepeated.supported = supportedRtpCapabilities
             /\ RouterCallRepeated.pool = DynamicPayloadTypes

\* a call that took the payload type 101 of its request out of its pool,
\* drew a value for the RTX codec and failed at its second codec
C17_Witness ==
    /\ pc = "generateRouterRtpCapabilities"
    /\ Len(draws) >= 1
    /\ ret.kind = "throw"
    /\ Len(Get(args0, "mediaCodecs").v) = 2
    /\ Get(Get(args0, "mediaCodecs").v[1], "preferredPayloadType") = Num(101)

\* a call of getConsumerRtpParameters or of getPipeConsumerRtpParameters has
\* been made
ConsumerDerived == pc \in {"getConsumerRtpParameters", "getPipeConsumerRtpParameters"}

\* the consumable parameters as the calls made so far have left them
ConsumableLeft ==
    IF pc = "getConsumableRtpParameters" THEN ret.value
    ELSE Get(args, "consumableRtpParameters")

\* C18: a call of getConsumerRtpParameters or getPipeConsumerRtpParameters,
\* returned or failed, leaves the consumable parameters as it was given them,
\* and it was given them as the calls before had left them: any number of
\* Consumers derived from them, in any order, are each derived from the
\* consumable parameters getConsumableRtpParameters returned
C18_ConsumableLeftUnchanged ==
    [][ConsumerDerived'
          => /\ Get(args', "consumableRtpParameters") = Get(args0', "consumableRtpParameters")
             /\ Get(args', "consumableRtpParameters") = ConsumableLeft]_vars

\* a pipe Consumer with RTX of three encodings: the call has written the
\* feedback of its codecs and the ssrc and rtx of its encodings, which the
\* consumable parameters do not have
C18_Witness ==
    /\ ConsumerReturned
    /\ Get(args0, "pipe") = Bool(TRUE)
    /\ ConsumerHasRtxCodec
    /\ Len(ConsumerEncodings) = 3
    /\ ConsumerEncodingHasRtx(1)
    /\ "rtx" \notin DOMAIN Get(Get(args, "consumableRtpParameters"), "encodings").v[1].v
    /\ \E k \in DOMAIN ConsumerCodecs :
          \E i \in DOMAIN Get(Get(args, "consumableRtpParameters"), "codecs").v :
              /\ Get(Get(Get(args, "consumableRtpParameters"), "codecs").v[i], "payloadType")
                     = Get(ConsumerCodecs[k], "payloadType")
              /\ Get(Get(Get(args, "consumableRtpParameters"), "codecs").v[i], "rtcpFeedback")
                     # Get(ConsumerCodecs[k], "rtcpFeedback")

====
